---- MODULE Spec2Model ----
(***************************************************************************)
(* A model of the influxql query engine (src/influxql/engine.go):          *)
(* Planner.Plan, Executor.Execute / execute / close, MapReduceJob.Open /   *)
(* Close / Execute / processAggregate / processRawResults, the unbuffered  *)
(* output channel and its consumer.  Every mapper operation (Open, Close,  *)
(* Begin, NextInterval) is one step of the thread that issues it.          *)
(* The module also models the bolt task store                              *)
(* (src/task/backend/bolt/bolt.go: CreateTask, DeleteTask, CreateRun,      *)
(* FinishRun, ListTasks) and CSVSource.Run                                 *)
(* (src/query/functions/from_csv.go), each under its own specification.    *)
(***************************************************************************)
EXTENDS Integers, Sequences, FiniteSets, TLC

\* ---------------------------------------------------------------- bounds
MaxJobs == 2
MaxMappers == 2
\* the store's sequences: tasks created, runs created
MaxTaskSeq == 2
MaxRunSeq == 2
\* the CSV source: blocks of the decoded result, registered transformations
MaxBlocks == 2
MaxTransformations == 2

\* ------------------------------------------------------------- constants
\* nanoseconds per second: time.Unix(0, t) normalises t into (sec, nsec)
NanosPerSecond == 1000000000
\* bytes of a stored id, and the values of one byte
IDLen == 8
ByteBase == 256
\* ListTasks' page size when the caller gives none
defaultPageSize == 100

\* ------------------------------------------------------- plain helpers
Range(s) == {s[p] : p \in DOMAIN s}

Contains(s, x) == \E p \in DOMAIN s : s[p] = x

\* Go integer division: truncates toward zero
GoDiv(a, b) ==
    IF (a >= 0) = (b > 0)
    THEN (IF a >= 0 THEN a ELSE 0 - a) \div (IF b > 0 THEN b ELSE 0 - b)
    ELSE 0 - ((IF a >= 0 THEN a ELSE 0 - a) \div (IF b > 0 THEN b ELSE 0 - b))

\* time.Unix(0, t).UTC(): the instant t nanoseconds after the epoch, as the
\* normalised (seconds, nanoseconds within the second) pair time.Time holds
utc(t) == [sec |-> t \div NanosPerSecond, nsec |-> t % NanosPerSecond]

\* time.Time.Before
TimeBefore(a, b) == a.sec < b.sec \/ (a.sec = b.sec /\ a.nsec < b.nsec)

\* values of type interface{} that end up in a Row
Num(v) == [num |-> v]
Null == [null |-> TRUE]

\* bytes.Compare(a, b) == -1 on byte strings (sequences of small integers)
RECURSIVE BytesLess(_, _)
BytesLess(a, b) ==
    IF b = <<>> THEN FALSE
    ELSE IF a = <<>> THEN TRUE
    ELSE IF Head(a) # Head(b) THEN Head(a) < Head(b)
    ELSE BytesLess(Tail(a), Tail(b))

\* ------------------------------------------------------------- errors
NoErr == "nil"
ErrOpen == "mapper open failed"
ErrBegin == "mapper begin failed"
ErrNextInterval == "mapper next interval failed"
ErrUnknownFunc == "function not found"
ErrDBBegin == "db begin failed"
ErrNormalize == "invalid dimensions"
ErrCreateJobs == "create map reduce jobs failed"

\* ---------------------------------------------------------- statements
\* A SelectStatement as the engine reads it: AggregateCalls() (each call by
\* its Name) and NamesInSelect().
NilCall == "nil"
NoStmt == [aggregates |-> <<>>, names |-> <<>>]

Stmts ==
    { [aggregates |-> <<>>, names |-> <<"v">>],
      [aggregates |-> <<>>, names |-> <<"time", "x", "y">>],
      [aggregates |-> <<>>, names |-> <<"x", "time">>],
      [aggregates |-> <<"count">>, names |-> <<"count">>],
      [aggregates |-> <<"count", "sum">>, names |-> <<"count", "sum">>],
      [aggregates |-> <<"count", "bogus">>, names |-> <<"count", "bogus">>] }

AggregateCalls(s) == s.aggregates
NamesInSelect(s) == s.names

\* GROUP BY time() widths in nanoseconds that Dimensions.Normalize returns
Intervals == {0, 10}

\* (TMin, TMax) of the query, TMin <= TMax
TimeRanges ==
    { <<0, 0>>, <<0, 25>>, <<10, 19>>, <<10, 20>>, <<10, 29>>, <<15, 19>>,
      <<999999995, 1000000014>> }

\* TagSet.Key values, byte strings
TagSetKeys == { <<1>>, <<1, 1>>, <<2>> }

MeasurementName == "m"

MeasurementBytes == <<109>>

TagsOf(k) == << <<"host", k>> >>
NilTags == <<>>

\* ------------------------------------------------------------- mappers
\* The shard data behind mapper i of a job: what NextInterval yields for the
\* k-th window (k from 0) after Begin(call, start).
AggData(call, i, k) ==
    IF call = "count" THEN Num(3 + 4 * k + 10 * (i - 1))
    ELSE Num(42 + k + 100 * (i - 1))

RawTimestamps(i) ==
    IF i = 1 THEN <<5, 17>> ELSE IF i = 2 THEN <<12>> ELSE <<>>

FieldsOf(names) == SelectSeq(names, LAMBDA n : n # "time")

\* the payload of the raw record at timestamp ts: the single selected field's
\* value, or a field map (which lacks the last field at timestamp 17)
RawPayload(names, ts) ==
    LET fields == FieldsOf(names) IN
    IF Len(fields) = 1 THEN Num(100 + ts)
    ELSE LET present == IF ts = 17 THEN Range(SubSeq(fields, 1, Len(fields) - 1))
                        ELSE Range(fields)
             idx(n) == CHOOSE p \in DOMAIN fields : fields[p] = n
         IN  [n \in present |-> Num(10 * idx(n) + ts)]

RawRecord(names, ts) == [timestamp |-> ts, values |-> RawPayload(names, ts)]

\* raw records of mapper i inside the window [lo, hi)
RawData(names, i, lo, hi) ==
    LET all == RawTimestamps(i)
        inWin == SelectSeq(all, LAMBDA ts : lo <= ts /\ ts < hi)
    IN  [raw |-> [p \in DOMAIN inWin |-> RawRecord(names, inWin[p])]]

\* log entries of the mapper calls issued by the running Job.Execute
BeginCall(i, c, start) == [op |-> "Begin", mapper |-> i, call |-> c, arg |-> start]
NextIntervalCall(i, c, interval) ==
    [op |-> "NextInterval", mapper |-> i, call |-> c, arg |-> interval]

\* position in the log of mapper i's latest Begin (0 when there is none)
LastBegin(log, i) ==
    LET ps == {p \in DOMAIN log : log[p].op = "Begin" /\ log[p].mapper = i}
    IN  IF ps = {} THEN 0 ELSE CHOOSE p \in ps : \A q \in ps : q <= p

\* number of NextInterval calls mapper i has served since its latest Begin
Cursor(log, i) ==
    Cardinality({p \in DOMAIN log : /\ p > LastBegin(log, i)
                                    /\ log[p].op = "NextInterval"
                                    /\ log[p].mapper = i})

\* Mapper.NextInterval(interval) of mapper i, bound by its latest Begin: the
\* partial result of the window [start + k*interval, start + (k+1)*interval)
MapperNextInterval(log, names, i, interval) ==
    LET b == log[LastBegin(log, i)]
        k == Cursor(log, i)
        lo == b.arg + k * interval
    IN  IF b.call = NilCall THEN RawData(names, i, lo, lo + interval)
        ELSE AggData(b.call, i, k)

\* ------------------------------------------------------------ reducers
KnownFuncs == {"count", "sum"}

\* InitializeReduceFunc(c): the reducer for call c, or an error
InitializeReduceFunc(c) ==
    IF c = NilCall THEN [fn |-> "raw", err |-> NoErr]
    ELSE IF c \in KnownFuncs THEN [fn |-> c, err |-> NoErr]
    ELSE [fn |-> "none", err |-> ErrUnknownFunc]

RECURSIVE SumNums(_)
SumNums(outs) ==
    IF outs = <<>> THEN 0 ELSE Head(outs).num + SumNums(Tail(outs))

RECURSIVE ConcatRaw(_)
ConcatRaw(outs) ==
    IF outs = <<>> THEN <<>> ELSE Head(outs).raw \o ConcatRaw(Tail(outs))

\* stable insertion of record r into a sequence sorted by timestamp
RECURSIVE InsertByTime(_, _)
InsertByTime(sorted, r) ==
    IF sorted = <<>> THEN <<r>>
    ELSE IF r.timestamp < Head(sorted).timestamp THEN <<r>> \o sorted
    ELSE <<Head(sorted)>> \o InsertByTime(Tail(sorted), r)

RECURSIVE SortByTime(_)
SortByTime(recs) ==
    IF recs = <<>> THEN <<>>
    ELSE InsertByTime(SortByTime(SubSeq(recs, 1, Len(recs) - 1)), recs[Len(recs)])

\* a ReduceFunc applied to the per-mapper outputs, in mapper order
ReduceFunc(fn, outs) ==
    IF fn = "raw" THEN [raw |-> SortByTime(ConcatRaw(outs))]
    ELSE Num(SumNums(outs))

\* --------------------------------------------------------------- rows
Row(name, tags, columns, values, err) ==
    [Name |-> name, Tags |-> tags, Columns |-> columns, Values |-> values,
     Err |-> err]

\* ------------------------------------------------ MapReduceJob.Execute
\* the aggregates the job iterates over (lines 58, 72-74)
JobAggregates(s) ==
    IF Len(AggregateCalls(s)) = 0 THEN <<NilCall>> ELSE AggregateCalls(s)

IsRaw(s) == Len(AggregateCalls(s)) = 0

\* a variant of FirstInitErr that drops the error, as line 75 does
FirstInitErrIgnored(s) == NoErr

\* the first reducer-initialisation error of lines 60-68, NoErr when none
FirstInitErr(s) ==
    LET calls == AggregateCalls(s)
        bad == {p \in DOMAIN calls : InitializeReduceFunc(calls[p]).err # NoErr}
    IN  IF bad = {} THEN NoErr
        ELSE InitializeReduceFunc(calls[CHOOSE p \in bad : \A q \in bad : p <= q]).err

\* the reducers of lines 59-77
JobReduceFuncs(s) ==
    LET aggs == JobAggregates(s)
    IN  [p \in DOMAIN aggs |-> InitializeReduceFunc(aggs[p]).fn]

\* rows sent at line 64 when reducer initialisation fails
InitErrSends(job, err) == << Row("", NilTags, <<>>, <<>>, err) >>

\* a variant of AggregateErrSends that sends the bare Row{Err: err} of line 64
AggregateErrSendsBare(job, err) == << Row("", NilTags, <<>>, <<>>, err) >>

\* a variant of AggregateErrSends without the return of line 116: the error
\* row is followed by a second row
AggregateErrSendsTwice(job, err) ==
    << Row(job.MeasurementName, job.TagSet.Tags, <<>>, <<>>, err),
       Row(job.MeasurementName, job.TagSet.Tags, <<"time">>, <<>>, NoErr) >>

\* rows sent at lines 110-114 when processAggregate fails
AggregateErrSends(job, err) ==
    << Row(job.MeasurementName, job.TagSet.Tags, <<>>, <<>>, err) >>

\* a variant of SingleBucket that forgets the TMin == 0 case
SingleBucketIgnoresTMin(job, raw) == job.interval = 0 \/ raw

\* line 84: one point for the whole range?
SingleBucket(job, raw) == job.TMin = 0 \/ job.interval = 0 \/ raw

\* m.interval after lines 84-92
BucketInterval(job, raw) ==
    IF SingleBucket(job, raw) THEN job.TMax - job.TMin ELSE job.interval

\* a variant of PointCountInResult that does not snap the upper edge up
PointCountNoSnap(job, raw) ==
    IF SingleBucket(job, raw) THEN 1
    ELSE LET intervalTop == GoDiv(job.TMax, job.interval) * job.interval
         IN  GoDiv(intervalTop - job.TMin, job.interval)

\* pointCountInResult of lines 84-92
PointCountInResult(job, raw) ==
    IF SingleBucket(job, raw) THEN 1
    ELSE LET intervalTop ==
                 GoDiv(job.TMax, job.interval) * job.interval + job.interval
         IN  GoDiv(intervalTop - job.TMin, job.interval)

\* a variant of ResultTimes that steps by one nanosecond, not by the interval
ResultTimesNoScale(tmin, interval, pointCount) ==
    [i \in 1..pointCount |-> tmin + (i - 1)]

\* resultTimes of lines 97-101
ResultTimes(tmin, interval, pointCount) ==
    [i \in 1..pointCount |-> tmin + (i - 1) * interval]

\* a variant of InitResultValues with one bucket more than pointCount
InitResultValuesExtraBucket(tmin, interval, pointCount) ==
    [i \in 1..(pointCount + 1) |-> << utc(tmin + (i - 1) * interval) >>]

\* resultValues of lines 98-104: each bucket starts with its time
InitResultValues(tmin, interval, pointCount) ==
    [i \in 1..pointCount |-> << utc(ResultTimes(tmin, interval, pointCount)[i]) >>]

\* a variant of ColumnNames that lists the aggregates in reverse order
ColumnNamesReversed(aggs) ==
    [p \in 1..(Len(aggs) + 1) |->
        IF p = 1 THEN "time" ELSE aggs[Len(aggs) + 2 - p]]

\* columnNames of lines 126-130
ColumnNames(aggs) ==
    [p \in 1..(Len(aggs) + 1) |-> IF p = 1 THEN "time" ELSE aggs[p - 1]]

\* rows sent at lines 132-140
ResultRowSends(job, aggs, values) ==
    << Row(job.MeasurementName, job.TagSet.Tags, ColumnNames(aggs), values, NoErr) >>

\* a variant of RawColumns that prepends "time" without looking for it
RawColumnsAlwaysPrepend(s) == <<"time">> \o NamesInSelect(s)

\* selectNames of lines 145-156
RawColumns(s) ==
    IF Contains(NamesInSelect(s), "time") THEN NamesInSelect(s)
    ELSE <<"time">> \o NamesInSelect(s)

\* a variant of FieldValue that gives a zero for a missing key
FieldValueZero(fields, n) == IF n \in DOMAIN fields THEN fields[n] ELSE Num(0)

\* fields[n] of line 189: a missing key gives nil
FieldValue(fields, n) == IF n \in DOMAIN fields THEN fields[n] ELSE Null

\* vals of lines 177-192 for one raw record
RawValueRow(selectNames, v) ==
    IF Len(selectNames) = 2
    THEN << utc(v.timestamp), v.values >>
    ELSE [p \in DOMAIN selectNames |->
             IF selectNames[p] = "time" THEN utc(v.timestamp)
             ELSE FieldValue(v.values, selectNames[p])]

\* processRawResults, lines 144-198
processRawResults(job, values) ==
    LET selectNames == RawColumns(job.stmt)
    IN  IF Len(values) = 0 \/ Len(values[1]) # 2
        THEN Row(job.MeasurementName, job.TagSet.Tags, selectNames, <<>>, NoErr)
        ELSE LET recs == values[1][2].raw
             IN  Row(job.MeasurementName, job.TagSet.Tags, selectNames,
                     [p \in DOMAIN recs |-> RawValueRow(selectNames, recs[p])],
                     NoErr)

\* rows sent at line 121
RawSends(job, values) == << processRawResults(job, values) >>

\* MapReduceJob.Key, lines 49-54
JobKey(job) == MeasurementBytes \o job.TagSet.Key

\* MapReduceJobs.Less, line 233
JobLess(a, b) == BytesLess(JobKey(a), JobKey(b))

\* ------------------------------------------------------------ planner
\* a job as Tx.CreateMapReduceJobs builds it; Mappers is the number of
\* mappers, the mappers themselves live in the variable mappers
TxJob(k, nm, r) ==
    [MeasurementName |-> MeasurementName,
     TagSet |-> [Key |-> k, Tags |-> TagsOf(k)],
     Mappers |-> nm, TMin |-> r[1], TMax |-> r[2],
     interval |-> 0, stmt |-> NoStmt]

\* the job lists Tx.CreateMapReduceJobs may return: pairwise distinct tag set
\* keys in any order, every job with the query's time range
TxJobLists ==
    UNION { { [p \in 1..n |-> TxJob(ks[p], nm, r)] :
                ks \in {f \in [1..n -> TagSetKeys] :
                          \A p, q \in 1..n : p # q => f[p] # f[q]},
                nm \in 1..MaxMappers, r \in TimeRanges }
            : n \in 0..MaxJobs }

\* the jobs sorted by MapReduceJobs.Less (insertion sort)
RECURSIVE SortJobs(_)
SortJobs(js) ==
    IF js = <<>> THEN <<>>
    ELSE LET rest == SortJobs(SubSeq(js, 1, Len(js) - 1))
             j == js[Len(js)]
             lower == SelectSeq(rest, LAMBDA x : ~JobLess(j, x))
             upper == SelectSeq(rest, LAMBDA x : JobLess(j, x))
         IN  lower \o <<j>> \o upper

\* a variant of PlanJobs that sorts the jobs by key before imprinting them
PlanJobsSorted(js, interval, s) ==
    LET sorted == SortJobs(js)
    IN  [p \in DOMAIN sorted |-> [sorted[p] EXCEPT !.interval = interval, !.stmt = s]]

\* a variant of PlanJobs that forgets line 310
PlanJobsNoInterval(js, interval, s) ==
    [p \in DOMAIN js |-> [js[p] EXCEPT !.stmt = s]]

\* lines 309-312: every job gets the interval and the statement
PlanJobs(js, interval, s) ==
    [p \in DOMAIN js |-> [js[p] EXCEPT !.interval = interval, !.stmt = s]]

FreshMappers(js) ==
    [j \in DOMAIN js |-> [i \in 1..js[j].Mappers |-> [opens |-> 0, closes |-> 0]]]

\* ------------------------------------------------ the bolt task store
\* src/task/backend/bolt/bolt.go: the errors the store returns
ErrMaxConcurrency == "MaxConcurrency reached"
ErrRunNotFound == "run not found"
ErrNotFound == "task not found"

\* binary.BigEndian.PutUint64 into a buffer of w bytes
RECURSIVE BigEndianBytes(_, _)
BigEndianBytes(n, w) ==
    IF w = 0 THEN <<>> ELSE Append(BigEndianBytes(n \div ByteBase, w - 1), n % ByteBase)

PutUint64(n) == BigEndianBytes(n, IDLen)

\* binary.BigEndian.Uint64: the value of the first IDLen bytes of b
RECURSIVE BigEndianValue(_, _)
BigEndianValue(b, k) ==
    IF k = 0 THEN 0 ELSE BigEndianValue(b, k - 1) * ByteBase + b[k]

Uint64(b) == BigEndianValue(b, IDLen)

\* unpadID: bytes.TrimLeft(id, "\x00")
RECURSIVE unpadID(_)
unpadID(id) ==
    IF id # <<>> /\ Head(id) = 0 THEN unpadID(Tail(id)) ELSE id

\* padID: ids of IDLen bytes or more are returned as they are, shorter ones
\* are copied to the end of a zeroed buffer of IDLen bytes
padID(id) ==
    IF Len(id) >= IDLen THEN id
    ELSE [i \in 1..IDLen |->
            IF i <= IDLen - Len(id) THEN 0 ELSE id[i - (IDLen - Len(id))]]

\* the ids callers hand to the store: the unpadded form of every id a
\* sequence can have issued, the empty id, and one id in its padded form
TaskIDInputs == {unpadID(PutUint64(k)) : k \in 0..MaxTaskSeq} \cup {PutUint64(1)}
RunIDInputs == {unpadID(PutUint64(k)) : k \in 0..MaxRunSeq} \cup {PutUint64(1)}

\* the `now` arguments of CreateRun
Nows == {3, 5}

\* pb.StoredTaskInternalMeta{}: what Unmarshal leaves for a missing value
ZeroMeta ==
    [MaxConcurrency |-> 0, CurrentlyRunning |-> <<>>, LastCompletedTimestampUnix |-> 0]

\* CreateTask's metadata: pb.StoredTaskInternalMeta{MaxConcurrency: 1}
NewTaskMeta == [ZeroMeta EXCEPT !.MaxConcurrency = 1]

\* bolt buckets: Put and Delete on a bucket with values
Put(bucket, k, v) == [x \in DOMAIN bucket \cup {k} |-> IF x = k THEN v ELSE bucket[x]]

Delete(bucket, k) == [x \in DOMAIN bucket \ {k} |-> bucket[x]]

\* Get on taskMetaPath followed by stm.Unmarshal
StoredMeta(d, paddedID) ==
    IF paddedID \in DOMAIN d.taskMeta THEN d.taskMeta[paddedID] ELSE ZeroMeta

\* the database after New: the root bucket's sequence, the runIDs bucket's
\* sequence, the key sets of the buckets whose values the operations below
\* never read, and taskMetaPath with its values
EmptyDB ==
    [seq |-> 0, runSeq |-> 0, tasks |-> {}, nameByTaskID |-> {},
     orgs |-> {}, orgByTaskID |-> {}, users |-> {}, userByTaskID |-> {},
     taskMeta |-> <<>>]

\* the keys of a bucket in the order a bolt cursor visits them: ascending
\* byte order
RECURSIVE KeysInOrder(_)
KeysInOrder(keys) ==
    IF keys = {} THEN <<>>
    ELSE LET k == CHOOSE x \in keys : \A y \in keys : y = x \/ BytesLess(x, y)
         IN  <<k>> \o KeysInOrder(keys \ {k})

\* Cursor.Seek(k): the position of the first key at or after k, one past the
\* end when there is none
Seek(ordered, k) ==
    LET at == {p \in DOMAIN ordered : ~BytesLess(ordered[p], k)}
    IN  IF at = {} THEN Len(ordered) + 1 ELSE CHOOSE p \in at : \A q \in at : p <= q

\* the keys a loop of Cursor.Next collects, starting with the key at
\* position pos, up to lim keys
CollectFrom(ordered, pos, lim) ==
    LET last == IF pos + lim - 1 < Len(ordered) THEN pos + lim - 1 ELSE Len(ordered)
    IN  SubSeq(ordered, pos, last)

\* ListTasks line 210-213: the page size 0 stands for the default
PageLimit(pageSize) == IF pageSize = 0 THEN defaultPageSize ELSE pageSize

\* the page sizes callers ask for
PageSizes == {0, 1}

\* ListTasks lines 233-243: with After, Seek(padID(After)) and then the
\* keys from the first c.Next() on; without it the keys from c.First() on
ListedKeys(keys, after, lim) ==
    LET ordered == KeysInOrder(keys)
    IN  IF Len(after) > 0
        THEN CollectFrom(ordered, Seek(ordered, padID(after)) + 1, lim)
        ELSE CollectFrom(ordered, 1, lim)

\* what the last store call listed, when it was ListTasks
Listing(after, pageSize, ids) == [After |-> after, PageSize |-> pageSize, IDs |-> ids]

NoListing == Listing(<<>>, 0, <<>>)

\* a variant of AtMaxConcurrency that lets one run past the limit in
AtMaxConcurrencyStrict(stm) == Len(stm.CurrentlyRunning) > stm.MaxConcurrency

\* CreateRun line 408: the limit check
AtMaxConcurrency(stm) == Len(stm.CurrentlyRunning) >= stm.MaxConcurrency

\* CreateRun lines 417-423: the appended entry
AppendRunning(stm, now, intID) ==
    [stm EXCEPT !.CurrentlyRunning =
        Append(@, [NowTimestampUnix |-> now, Try |-> 1, RunID |-> intID])]

\* a variant of CompletedAfter that takes every finished run as the latest
CompletedAfterAlways(runner, last) == TRUE

\* FinishRun line 458: is the finished run later than the last completed one
CompletedAfter(runner, last) == runner.NowTimestampUnix > last

\* append(s[:i], s[i+1:]...) on a slice of length len over the backing
\* array arr: the elements after position i move one place down, in place
RemoveAt(arr, len, i) ==
    [k \in 1..Len(arr) |-> IF k >= i /\ k < len THEN arr[k + 1] ELSE arr[k]]

\* FinishRun lines 453-463: the range loop.  The range expression is
\* evaluated once (n iterations), each iteration reads the backing array as
\* it is then, and the loop stops early only when it updates the
\* last-completed time.
RECURSIVE RunnersLoop(_, _, _, _)
RunnersLoop(i, n, intID, s) ==
    IF i > n THEN s
    ELSE IF s.arr[i].RunID # intID THEN RunnersLoop(i + 1, n, intID, s)
    ELSE LET removed == [s EXCEPT !.arr = RemoveAt(s.arr, s.len, i),
                                  !.len = s.len - 1, !.found = TRUE]
         IN IF CompletedAfter(s.arr[i], s.last)
            THEN [removed EXCEPT !.last = s.arr[i].NowTimestampUnix]
            ELSE RunnersLoop(i + 1, n, intID, removed)

FinishRunLoop(stm, intID) ==
    RunnersLoop(1, Len(stm.CurrentlyRunning), intID,
                [arr |-> stm.CurrentlyRunning, len |-> Len(stm.CurrentlyRunning),
                 last |-> stm.LastCompletedTimestampUnix, found |-> FALSE])

\* the record of the last store call: its arguments, what it returned and
\* the database it ran against
StoreCall(op, taskID, runID, now, err, deleted, before) ==
    [op |-> op, taskID |-> taskID, runID |-> runID, now |-> now, err |-> err,
     deleted |-> deleted, before |-> before]

NoStoreCall == StoreCall("none", <<>>, <<>>, 0, NoErr, FALSE, EmptyDB)

\* ------------------------------------------------------ the CSV source
\* src/query/functions/from_csv.go: errors of a transformation's Process and
\* of the block iterator itself
ErrProcess == "process failed"
ErrDecode == "decode failed"

\* a block as Run reads it: has its key a "_stop" column (ColIdx >= 0), and
\* the time in it
Block(hasStop, stop) == [hasStop |-> hasStop, stop |-> stop]

\* stop times of blocks, execute.Time values
Stops == {-2, 3, 7}

Blocks == {Block(FALSE, 0)} \cup {Block(TRUE, s) : s \in Stops}

\* the results a decoded CSV text may hold: up to MaxBlocks blocks
BlockLists == UNION {[1..n -> Blocks] : n \in 0..MaxBlocks}

\* a variant of StopMax that keeps the latest stop time
StopMaxLatest(max, b) == IF b.hasStop THEN b.stop ELSE max

\* lines 122-126: max after a processed block
StopMax(max, b) == IF b.hasStop /\ b.stop > max THEN b.stop ELSE max

\* log entries of the calls Run makes on transformation t
ProcessCall(t, b, err) == [op |-> "Process", t |-> t, block |-> b, time |-> 0, err |-> err]
UpdateWatermarkCall(t, max) ==
    [op |-> "UpdateWatermark", t |-> t, block |-> 0, time |-> max, err |-> NoErr]
FinishCall(t, err) == [op |-> "Finish", t |-> t, block |-> 0, time |-> 0, err |-> err]

\* ---------------------------------------------------------------- state
VARIABLES
    cpc,            \* position of the caller: Plan, Execute(), then consumer
    stmt,           \* the statement handed to Plan
    tx,             \* "none" or "begun": the transaction DB.Begin returned
    createCalled,   \* Tx.CreateMapReduceJobs has been called
    txJobs,         \* the job list Tx.CreateMapReduceJobs returned
    jobs,           \* Executor.jobs
    execInterval,   \* Executor.interval
    retErr,         \* the error Plan or Execute() returned
    out,            \* the output channel: "nil", "open", "closed"
    oj, om,         \* Execute()/Open loop positions: job, mapper
    kj, km,         \* close()/Close loop positions: job, mapper
    mappers,        \* per job, per mapper: number of Open and Close calls
    epc,            \* position of the emission goroutine
    ej,             \* execute loop position: job
    ea, em, eb,     \* Job.Execute loop positions: aggregate, mapper, bucket
    aggregates, reduceFuncs, isRaw, resultValues, mapperOutputs,
    outbox,         \* rows the running Job.Execute sends before it returns
    calls,          \* Begin/NextInterval calls of the running Job.Execute
    sentBy,         \* per row sent on the channel, the job that sent it
    received,       \* rows the consumer has received
    chanCloses,     \* number of close(out) executed
    sawClose,       \* the consumer has observed the channel closed
    db,             \* the bolt database of the task store
    lastOp,         \* the last call on the task store and its result
    listed,         \* what the last store call listed
    csvData,        \* CSVSource.data: the blocks of the decoded result
    csvTs,          \* CSVSource.ts: the number of registered transformations
    runPc,          \* position of CSVSource.Run
    runBlock, runT, \* Run's loop positions: block, transformation
    runErr, runMax, \* Run's locals err and max
    tLog            \* the calls Run has made on the transformations

callerVars == <<cpc, stmt, tx, createCalled, txJobs, execInterval, retErr, oj, om>>
closeVars == <<kj, km>>
localVars == <<ea, em, eb, aggregates, reduceFuncs, isRaw, resultValues, mapperOutputs>>
chanVars == <<out, sentBy, received, chanCloses, sawClose>>
storeVars == <<db, lastOp, listed>>
engineVars == <<callerVars, closeVars, localVars, chanVars, jobs, mappers, epc, ej,
                outbox, calls>>
csvVars == <<csvData, csvTs, runPc, runBlock, runT, runErr, runMax, tLog>>
vars == <<engineVars, storeVars, csvVars>>

Init ==
    /\ cpc = "plan" /\ stmt = NoStmt /\ tx = "none" /\ createCalled = FALSE
    /\ txJobs = <<>> /\ jobs = <<>> /\ execInterval = 0 /\ retErr = NoErr /\ out = "nil"
    /\ oj = 1 /\ om = 1 /\ kj = 1 /\ km = 1
    /\ mappers = <<>>
    /\ epc = "idle" /\ ej = 1 /\ ea = 1 /\ em = 1 /\ eb = 1
    /\ aggregates = <<>> /\ reduceFuncs = <<>> /\ isRaw = FALSE
    /\ resultValues = <<>> /\ mapperOutputs = <<>>
    /\ outbox = <<>> /\ calls = <<>> /\ sentBy = <<>> /\ received = <<>>
    /\ chanCloses = 0 /\ sawClose = FALSE
    /\ db = EmptyDB /\ lastOp = NoStoreCall /\ listed = NoListing
    /\ csvData = <<>> /\ csvTs = 0 /\ runPc = "none" /\ runBlock = 1 /\ runT = 1
    /\ runErr = NoErr /\ runMax = 0 /\ tLog = <<>>

\* ------------------------------------------------------- Planner.Plan
\* lines 293-296: DB.Begin fails
PlanBeginFails ==
    /\ cpc = "plan"
    /\ \E s \in Stmts : stmt' = s
    /\ retErr' = ErrDBBegin
    /\ cpc' = "planFailed"
    /\ UNCHANGED <<tx, createCalled, txJobs, execInterval, oj, om, closeVars, localVars,
                   chanVars, jobs, mappers, epc, ej, outbox, calls>>
    /\ UNCHANGED <<storeVars, csvVars>>

\* lines 299-302: Dimensions.Normalize fails after DB.Begin succeeded
PlanNormalizeFails ==
    /\ cpc = "plan"
    /\ \E s \in Stmts : stmt' = s
    /\ tx' = "begun"
    /\ retErr' = ErrNormalize
    /\ cpc' = "planFailed"
    /\ UNCHANGED <<createCalled, txJobs, execInterval, oj, om, closeVars, localVars,
                   chanVars, jobs, mappers, epc, ej, outbox, calls>>
    /\ UNCHANGED <<storeVars, csvVars>>

\* lines 305-308: Tx.CreateMapReduceJobs fails
PlanCreateJobsFails ==
    /\ cpc = "plan"
    /\ \E s \in Stmts : stmt' = s
    /\ tx' = "begun"
    /\ createCalled' = TRUE
    /\ retErr' = ErrCreateJobs
    /\ cpc' = "planFailed"
    /\ UNCHANGED <<txJobs, execInterval, oj, om, closeVars, localVars,
                   chanVars, jobs, mappers, epc, ej, outbox, calls>>
    /\ UNCHANGED <<storeVars, csvVars>>

\* lines 286-315, the successful path
Plan ==
    /\ cpc = "plan"
    /\ \E s \in Stmts, interval \in Intervals, js \in TxJobLists :
         /\ stmt' = s
         /\ txJobs' = js
         /\ jobs' = PlanJobs(js, interval, s)
         /\ execInterval' = interval
         /\ mappers' = FreshMappers(js)
    /\ tx' = "begun"
    /\ createCalled' = TRUE
    /\ cpc' = "planned"
    /\ UNCHANGED <<retErr, oj, om, closeVars, localVars, chanVars, epc, ej,
                   outbox, calls>>
    /\ UNCHANGED <<storeVars, csvVars>>

\* --------------------------------------------------- Executor.Execute
NumMappers(j) == jobs[j].Mappers

Opened(ms, j, i) == [ms EXCEPT ![j][i].opens = @ + 1]
Closed(ms, j, i) == [ms EXCEPT ![j][i].closes = @ + 1]

\* lines 337-340: make the channel, start the emission goroutine, return
StartEmission ==
    /\ out' = "open"
    /\ cpc' = "consume"
    /\ epc' = IF Len(jobs) = 0 THEN "closeChan" ELSE "jobStart"
    /\ ej' = 1

\* line 327: the caller enters Execute()
ExecuteCall ==
    /\ cpc = "planned"
    /\ IF Len(jobs) = 0
       THEN StartEmission /\ UNCHANGED <<oj, om>>
       ELSE /\ cpc' = "open" /\ oj' = 1 /\ om' = 1
            /\ UNCHANGED <<out, epc, ej>>
    /\ UNCHANGED <<stmt, tx, createCalled, txJobs, execInterval, retErr, closeVars,
                   localVars, sentBy, received, chanCloses, sawClose, jobs,
                   mappers, outbox, calls>>
    /\ UNCHANGED <<storeVars, csvVars>>

\* a variant of OpenMapperOK in which the emission goroutine is started as
\* soon as the first job is open
OpenMapperOKStartsEarly ==
    /\ cpc = "open"
    /\ mappers' = [mappers EXCEPT ![oj][om].opens = @ + 1]
    /\ IF om < jobs[oj].Mappers
       THEN om' = om + 1 /\ UNCHANGED <<cpc, oj, out, epc, ej>>
       ELSE /\ out' = "open" /\ cpc' = "consume" /\ epc' = "jobStart" /\ ej' = 1
            /\ UNCHANGED <<oj, om>>
    /\ UNCHANGED <<stmt, tx, createCalled, txJobs, execInterval, retErr, closeVars,
                   localVars, sentBy, received, chanCloses, sawClose, jobs,
                   outbox, calls>>
    /\ UNCHANGED <<storeVars, csvVars>>

\* lines 329-330, 34-35: mm.Open() succeeds
OpenMapperOK ==
    /\ cpc = "open"
    /\ mappers' = Opened(mappers, oj, om)
    /\ IF om < NumMappers(oj)
       THEN om' = om + 1 /\ UNCHANGED <<cpc, oj, out, epc, ej>>
       ELSE IF oj < Len(jobs)
            THEN oj' = oj + 1 /\ om' = 1 /\ UNCHANGED <<cpc, out, epc, ej>>
            ELSE StartEmission /\ UNCHANGED <<oj, om>>
    /\ UNCHANGED <<stmt, tx, createCalled, txJobs, execInterval, retErr, closeVars,
                   localVars, sentBy, received, chanCloses, sawClose, jobs,
                   outbox, calls>>
    /\ UNCHANGED <<storeVars, csvVars>>

\* lines 35-36: mm.Open() fails, the job goes on to m.Close()
OpenMapperFails ==
    /\ cpc = "open"
    /\ mappers' = Opened(mappers, oj, om)
    /\ retErr' = ErrOpen
    /\ cpc' = "jobClose"
    /\ kj' = oj /\ km' = 1
    /\ UNCHANGED <<stmt, tx, createCalled, txJobs, execInterval, oj, om, localVars,
                   chanVars, jobs, epc, ej, outbox, calls>>
    /\ UNCHANGED <<storeVars, csvVars>>

\* a variant of JobCloseMapper in which Execute() returns the error without
\* calling e.close()
JobCloseMapperThenReturn ==
    /\ cpc = "jobClose"
    /\ mappers' = [mappers EXCEPT ![kj][km].closes = @ + 1]
    /\ IF km < jobs[kj].Mappers
       THEN km' = km + 1 /\ UNCHANGED <<cpc, kj>>
       ELSE cpc' = "returnedErr" /\ UNCHANGED <<kj, km>>
    /\ UNCHANGED <<stmt, tx, createCalled, txJobs, execInterval, retErr, oj, om,
                   localVars, chanVars, jobs, epc, ej, outbox, calls>>
    /\ UNCHANGED <<storeVars, csvVars>>

\* lines 36, 44-45: m.Close() of the job whose Open failed, one mapper a step;
\* after the last one Open returns the error and Execute() enters e.close()
JobCloseMapper ==
    /\ cpc = "jobClose"
    /\ mappers' = Closed(mappers, kj, km)
    /\ IF km < NumMappers(kj)
       THEN km' = km + 1 /\ UNCHANGED <<cpc, kj>>
       ELSE cpc' = "execClose" /\ kj' = 1 /\ km' = 1
    /\ UNCHANGED <<stmt, tx, createCalled, txJobs, execInterval, retErr, oj, om,
                   localVars, chanVars, jobs, epc, ej, outbox, calls>>
    /\ UNCHANGED <<storeVars, csvVars>>

\* lines 331-332, 343-347: e.close() after a failed Open, one mapper a step;
\* after the last one Execute() returns (nil, err)
ExecCloseMapper ==
    /\ cpc = "execClose"
    /\ mappers' = Closed(mappers, kj, km)
    /\ IF km < NumMappers(kj)
       THEN km' = km + 1 /\ UNCHANGED <<cpc, kj>>
       ELSE IF kj < Len(jobs)
            THEN kj' = kj + 1 /\ km' = 1 /\ UNCHANGED cpc
            ELSE cpc' = "returnedErr" /\ UNCHANGED <<kj, km>>
    /\ UNCHANGED <<stmt, tx, createCalled, txJobs, execInterval, retErr, oj, om,
                   localVars, chanVars, jobs, epc, ej, outbox, calls>>
    /\ UNCHANGED <<storeVars, csvVars>>

\* ------------------------------------------------ the emission goroutine
NilOutputs(n) == [i \in 1..n |-> [nil |-> TRUE]]

\* lines 58-68: a reducer fails to initialise; Execute goes on to send the
\* error row
JobExecuteInitFails ==
    /\ epc = "jobStart"
    /\ FirstInitErr(jobs[ej].stmt) # NoErr
    /\ calls' = <<>>
    /\ outbox' = InitErrSends(jobs[ej], FirstInitErr(jobs[ej].stmt))
    /\ epc' = "send"
    /\ UNCHANGED <<callerVars, closeVars, localVars, chanVars, jobs, mappers, ej>>
    /\ UNCHANGED <<storeVars, csvVars>>

\* lines 58-104 and 202: reducers, raw mode, bucket arithmetic, result slots
JobExecuteSetup ==
    /\ epc = "jobStart"
    /\ FirstInitErr(jobs[ej].stmt) = NoErr
    /\ LET job == jobs[ej]
           raw == IsRaw(job.stmt)
           interval == BucketInterval(job, raw)
       IN  /\ aggregates' = JobAggregates(job.stmt)
           /\ reduceFuncs' = JobReduceFuncs(job.stmt)
           /\ isRaw' = raw
           /\ jobs' = [jobs EXCEPT ![ej].interval = interval]
           /\ resultValues' =
                  InitResultValues(job.TMin, interval, PointCountInResult(job, raw))
           /\ mapperOutputs' = NilOutputs(job.Mappers)
    /\ calls' = <<>>
    /\ ea' = 1 /\ em' = 1 /\ eb' = 1
    /\ epc' = "begin"
    /\ UNCHANGED <<callerVars, closeVars, chanVars, mappers, ej, outbox>>
    /\ UNCHANGED <<storeVars, csvVars>>

\* lines 108-141 after processAggregate returned nil for aggregate ea with
\* result values rv: the next aggregate, or the row of the job
AfterAggregate(rv) ==
    /\ resultValues' = rv
    /\ IF ea < Len(aggregates)
       THEN /\ ea' = ea + 1 /\ em' = 1 /\ eb' = 1
            /\ mapperOutputs' = NilOutputs(NumMappers(ej))
            /\ epc' = "begin"
            /\ UNCHANGED outbox
       ELSE /\ outbox' = IF isRaw THEN RawSends(jobs[ej], rv)
                         ELSE ResultRowSends(jobs[ej], aggregates, rv)
            /\ epc' = "send"
            /\ UNCHANGED <<ea, em, eb, mapperOutputs>>

\* lines 206-210: mm.Begin(c, m.TMin) succeeds
MapperBeginOK ==
    /\ epc = "begin"
    /\ calls' = Append(calls, BeginCall(em, aggregates[ea], jobs[ej].TMin))
    /\ IF em < NumMappers(ej)
       THEN /\ em' = em + 1
            /\ UNCHANGED <<epc, ea, eb, resultValues, mapperOutputs, outbox>>
       ELSE IF Len(resultValues) = 0
            THEN AfterAggregate(resultValues)
            ELSE /\ epc' = "next" /\ em' = 1 /\ eb' = 1
                 /\ UNCHANGED <<ea, resultValues, mapperOutputs, outbox>>
    /\ UNCHANGED <<callerVars, closeVars, chanVars, jobs, mappers, ej,
                   aggregates, reduceFuncs, isRaw>>
    /\ UNCHANGED <<storeVars, csvVars>>

\* lines 207-209, 109-116: mm.Begin fails, Execute goes on to send the error row
MapperBeginFails ==
    /\ epc = "begin"
    /\ calls' = Append(calls, BeginCall(em, aggregates[ea], jobs[ej].TMin))
    /\ outbox' = AggregateErrSends(jobs[ej], ErrBegin)
    /\ epc' = "send"
    /\ UNCHANGED <<callerVars, closeVars, localVars, chanVars, jobs, mappers, ej>>
    /\ UNCHANGED <<storeVars, csvVars>>

\* lines 213-225: mm.NextInterval(m.interval) succeeds; after the last mapper
\* of a bucket the reducer's result is appended to the bucket
MapperNextIntervalOK ==
    /\ epc = "next"
    /\ LET job == jobs[ej]
           res == MapperNextInterval(calls, NamesInSelect(job.stmt), em, job.interval)
           mo == [mapperOutputs EXCEPT ![em] = res]
           rv == [resultValues EXCEPT
                     ![eb] = Append(@, ReduceFunc(reduceFuncs[ea], mo))]
       IN  /\ calls' = Append(calls, NextIntervalCall(em, aggregates[ea], job.interval))
           /\ IF em < NumMappers(ej)
              THEN /\ mapperOutputs' = mo /\ em' = em + 1
                   /\ UNCHANGED <<epc, ea, eb, resultValues, outbox>>
              ELSE IF eb < Len(resultValues)
                   THEN /\ mapperOutputs' = mo /\ resultValues' = rv
                        /\ eb' = eb + 1 /\ em' = 1
                        /\ UNCHANGED <<epc, ea, outbox>>
                   ELSE AfterAggregate(rv)
    /\ UNCHANGED <<callerVars, closeVars, chanVars, jobs, mappers, ej,
                   aggregates, reduceFuncs, isRaw>>
    /\ UNCHANGED <<storeVars, csvVars>>

\* lines 217-220, 109-116: mm.NextInterval fails, Execute goes on to send the
\* error row
MapperNextIntervalFails ==
    /\ epc = "next"
    /\ calls' = Append(calls, NextIntervalCall(em, aggregates[ea], jobs[ej].interval))
    /\ outbox' = AggregateErrSends(jobs[ej], ErrNextInterval)
    /\ epc' = "send"
    /\ UNCHANGED <<callerVars, closeVars, localVars, chanVars, jobs, mappers, ej>>
    /\ UNCHANGED <<storeVars, csvVars>>

\* a variant of ChannelHandoff on a buffered channel: the send completes
\* without a receive
ChannelHandoffBuffered ==
    /\ epc = "send"
    /\ outbox # <<>>
    /\ cpc = "consume"
    /\ out = "open"
    /\ sentBy' = Append(sentBy, ej)
    /\ outbox' = Tail(outbox)
    /\ UNCHANGED <<callerVars, closeVars, localVars, out, received, chanCloses,
                   sawClose, jobs, mappers, epc, ej, calls>>
    /\ UNCHANGED <<storeVars, csvVars>>

\* out <- row (lines 64, 110, 121, 140) meeting the consumer's receive: the
\* channel is unbuffered, the send completes only with the receive
ChannelHandoff ==
    /\ epc = "send"
    /\ outbox # <<>>
    /\ cpc = "consume"
    /\ out = "open"
    /\ received' = Append(received, Head(outbox))
    /\ sentBy' = Append(sentBy, ej)
    /\ outbox' = Tail(outbox)
    /\ UNCHANGED <<callerVars, closeVars, localVars, out, chanCloses, sawClose,
                   jobs, mappers, epc, ej, calls>>
    /\ UNCHANGED <<storeVars, csvVars>>

\* a variant of NextJob that skips a job
NextJobSkipsOne(j) == j + 2

\* line 355: the job the execute loop runs after job j
NextJob(j) == j + 1

\* a variant of JobExecuteReturn in which an error row ends the execute loop
JobExecuteReturnStopsOnErr ==
    /\ epc = "send"
    /\ outbox = <<>>
    /\ IF ej + 1 <= Len(jobs) /\ received[Len(received)].Err = NoErr
       THEN ej' = ej + 1 /\ epc' = "jobStart"
       ELSE ej' = Len(jobs) + 1 /\ epc' = "closeChan"
    /\ UNCHANGED <<callerVars, closeVars, localVars, chanVars, jobs, mappers,
                   outbox, calls>>
    /\ UNCHANGED <<storeVars, csvVars>>

\* lines 65, 116, 122, 141 and 355-357: Job.Execute returns, the execute loop
\* moves to the next job or leaves the loop
JobExecuteReturn ==
    /\ epc = "send"
    /\ outbox = <<>>
    /\ IF NextJob(ej) <= Len(jobs)
       THEN ej' = NextJob(ej) /\ epc' = "jobStart"
       ELSE ej' = Len(jobs) + 1 /\ epc' = "closeChan"
    /\ UNCHANGED <<callerVars, closeVars, localVars, chanVars, jobs, mappers,
                   outbox, calls>>
    /\ UNCHANGED <<storeVars, csvVars>>

\* a variant of CloseChannel without the deferred e.close()
CloseChannelNoDefer ==
    /\ epc = "closeChan"
    /\ out' = "closed"
    /\ chanCloses' = chanCloses + 1
    /\ epc' = "done"
    /\ UNCHANGED <<callerVars, closeVars, localVars, sentBy, received, sawClose, jobs,
                   mappers, ej, outbox, calls>>
    /\ UNCHANGED <<storeVars, csvVars>>

\* line 360: close(out); the deferred e.close() of line 352 starts after it
CloseChannel ==
    /\ epc = "closeChan"
    /\ out' = "closed"
    /\ chanCloses' = chanCloses + 1
    /\ IF Len(jobs) = 0
       THEN epc' = "done" /\ UNCHANGED closeVars
       ELSE epc' = "deferClose" /\ kj' = 1 /\ km' = 1
    /\ UNCHANGED <<callerVars, localVars, sentBy, received, sawClose, jobs,
                   mappers, ej, outbox, calls>>
    /\ UNCHANGED <<storeVars, csvVars>>

\* a variant of DeferCloseMapper that stops after the first job
DeferCloseMapperFirstJobOnly ==
    /\ epc = "deferClose"
    /\ mappers' = [mappers EXCEPT ![kj][km].closes = @ + 1]
    /\ IF km < jobs[kj].Mappers
       THEN km' = km + 1 /\ UNCHANGED <<epc, kj>>
       ELSE epc' = "done" /\ UNCHANGED <<kj, km>>
    /\ UNCHANGED <<callerVars, localVars, chanVars, jobs, ej, outbox, calls>>
    /\ UNCHANGED <<storeVars, csvVars>>

\* lines 352, 343-347, 43-47: the deferred e.close(), one mapper a step
DeferCloseMapper ==
    /\ epc = "deferClose"
    /\ mappers' = Closed(mappers, kj, km)
    /\ IF km < NumMappers(kj)
       THEN km' = km + 1 /\ UNCHANGED <<epc, kj>>
       ELSE IF kj < Len(jobs)
            THEN kj' = kj + 1 /\ km' = 1 /\ UNCHANGED epc
            ELSE epc' = "done" /\ UNCHANGED <<kj, km>>
    /\ UNCHANGED <<callerVars, localVars, chanVars, jobs, ej, outbox, calls>>
    /\ UNCHANGED <<storeVars, csvVars>>

\* the consumer's receive on the closed channel
ConsumerSeesClose ==
    /\ cpc = "consume"
    /\ out = "closed"
    /\ ~sawClose
    /\ sawClose' = TRUE
    /\ UNCHANGED <<callerVars, closeVars, localVars, out, sentBy, received,
                   chanCloses, jobs, mappers, epc, ej, outbox, calls>>
    /\ UNCHANGED <<storeVars, csvVars>>

Next ==
    \/ PlanBeginFails
    \/ PlanNormalizeFails
    \/ PlanCreateJobsFails
    \/ Plan
    \/ ExecuteCall
    \/ OpenMapperOK
    \/ OpenMapperFails
    \/ JobCloseMapper
    \/ ExecCloseMapper
    \/ JobExecuteInitFails
    \/ JobExecuteSetup
    \/ MapperBeginOK
    \/ MapperBeginFails
    \/ MapperNextIntervalOK
    \/ MapperNextIntervalFails
    \/ ChannelHandoff
    \/ JobExecuteReturn
    \/ CloseChannel
    \/ DeferCloseMapper
    \/ ConsumerSeesClose

Spec == Init /\ [][Next]_vars

\* the steps of the emission goroutine, the receive of a row included
EmissionStep ==
    \/ JobExecuteInitFails
    \/ JobExecuteSetup
    \/ MapperBeginOK
    \/ MapperBeginFails
    \/ MapperNextIntervalOK
    \/ MapperNextIntervalFails
    \/ ChannelHandoff
    \/ JobExecuteReturn
    \/ CloseChannel
    \/ DeferCloseMapper

\* the queries of the fair specification: a raw statement, two aggregates,
\* an aggregate without a reducer; two buckets; jobs in key order
LiveStmts == {s \in Stmts : s.names \in {<<"v">>, <<"count", "sum">>, <<"count", "bogus">>}}

LiveIntervals == {i \in Intervals : i > 0}

LiveJobLists ==
    {js \in TxJobLists :
        /\ \A p \in DOMAIN js : js[p].TMin = 10 /\ js[p].TMax = 29
        /\ \A p, q \in DOMAIN js : p < q => JobLess(js[p], js[q])}

\* Plan (lines 286-315, the successful path) on these queries
PlanLive ==
    /\ cpc = "plan"
    /\ \E s \in LiveStmts, interval \in LiveIntervals, js \in LiveJobLists :
         /\ stmt' = s
         /\ txJobs' = js
         /\ jobs' = PlanJobs(js, interval, s)
         /\ execInterval' = interval
         /\ mappers' = FreshMappers(js)
    /\ tx' = "begun"
    /\ createCalled' = TRUE
    /\ cpc' = "planned"
    /\ UNCHANGED <<retErr, oj, om, closeVars, localVars, chanVars, epc, ej,
                   outbox, calls>>
    /\ UNCHANGED <<storeVars, csvVars>>

NextLive ==
    \/ PlanBeginFails
    \/ PlanNormalizeFails
    \/ PlanCreateJobsFails
    \/ PlanLive
    \/ ExecuteCall
    \/ OpenMapperOK
    \/ OpenMapperFails
    \/ JobCloseMapper
    \/ ExecCloseMapper
    \/ EmissionStep
    \/ ConsumerSeesClose

\* the goroutine started at line 339 keeps being scheduled, every mapper
\* operation returns and the consumer keeps receiving
SpecLive == Init /\ [][NextLive]_vars /\ WF_vars(EmissionStep)

\* -------------------------------------------- one job executed twice
\* lines 56-57: Execute is called again on the job that has just returned
\* from its first Execute
JobExecuteAgain ==
    /\ epc = "send"
    /\ outbox = <<>>
    /\ Len(sentBy) < 2
    /\ epc' = "jobStart"
    /\ UNCHANGED <<callerVars, closeVars, localVars, chanVars, jobs, mappers, ej,
                   outbox, calls>>
    /\ UNCHANGED <<storeVars, csvVars>>

\* the first job of a planned and opened Executor runs Execute twice against
\* mappers that do not fail and replay their data from each Begin
NextReplay ==
    \/ Plan
    \/ ExecuteCall
    \/ OpenMapperOK
    \/ JobExecuteInitFails
    \/ JobExecuteSetup
    \/ MapperBeginOK
    \/ MapperNextIntervalOK
    \/ ChannelHandoff
    \/ JobExecuteAgain

SpecReplay == Init /\ [][NextReplay]_vars

\* ------------------------------------------- the task store's operations
\* lines 100-175: CreateTask.  The id is the root bucket's next sequence
\* value; every bucket gets the key and the metadata starts with
\* MaxConcurrency 1.  The call returns the unpadded id.
CreateTask ==
    /\ db.seq < MaxTaskSeq
    /\ LET idi == db.seq + 1
           id == PutUint64(idi)
       IN /\ db' = [db EXCEPT !.seq = idi,
                              !.tasks = @ \cup {id},
                              !.nameByTaskID = @ \cup {id},
                              !.orgs = @ \cup {id},
                              !.orgByTaskID = @ \cup {id},
                              !.users = @ \cup {id},
                              !.userByTaskID = @ \cup {id},
                              !.taskMeta = Put(@, id, NewTaskMeta)]
          /\ lastOp' = StoreCall("CreateTask", unpadID(id), <<>>, 0, NoErr, FALSE, db)
    /\ listed' = NoListing
    /\ UNCHANGED <<engineVars, csvVars>>

\* lines 353-395: DeleteTask.  A key missing from tasksPath is ErrNotFound,
\* reported as (false, nil); otherwise the key leaves every bucket.
DeleteTask(id) ==
    /\ LET paddedID == padID(id)
       IN IF paddedID \notin db.tasks
          THEN /\ lastOp' = StoreCall("DeleteTask", id, <<>>, 0, NoErr, FALSE, db)
               /\ UNCHANGED db
          ELSE /\ db' = [db EXCEPT !.taskMeta = Delete(@, paddedID),
                                   !.tasks = @ \ {paddedID},
                                   !.users = @ \ {paddedID},
                                   !.userByTaskID = @ \ {paddedID},
                                   !.nameByTaskID = @ \ {paddedID},
                                   !.orgs = @ \ {paddedID},
                                   !.orgByTaskID = @ \ {paddedID}]
               /\ lastOp' = StoreCall("DeleteTask", id, <<>>, 0, NoErr, TRUE, db)
    /\ listed' = NoListing
    /\ UNCHANGED <<engineVars, csvVars>>

\* lines 397-438: CreateRun.  At the limit the update fails with
\* ErrMaxConcurrency before anything is written; otherwise the run id is
\* the runIDs bucket's next sequence value and the run joins the list.
CreateRun(taskID, now) ==
    /\ LET paddedID == padID(taskID)
           stm == StoredMeta(db, paddedID)
           intID == db.runSeq + 1
       IN IF AtMaxConcurrency(stm)
          THEN /\ lastOp' = StoreCall("CreateRun", taskID, <<>>, now,
                                      ErrMaxConcurrency, FALSE, db)
               /\ UNCHANGED db
          ELSE /\ db.runSeq < MaxRunSeq
               /\ db' = [db EXCEPT !.runSeq = intID,
                                   !.taskMeta = Put(@, paddedID,
                                                    AppendRunning(stm, now, intID))]
               /\ lastOp' = StoreCall("CreateRun", taskID, unpadID(PutUint64(intID)),
                                      now, NoErr, FALSE, db)
    /\ listed' = NoListing
    /\ UNCHANGED <<engineVars, csvVars>>

\* lines 440-475: FinishRun.  A run id that the loop does not find is
\* ErrRunNotFound and nothing is written; otherwise the metadata the loop
\* left is stored.
FinishRun(taskID, runID) ==
    /\ LET paddedID == padID(taskID)
           intID == Uint64(padID(runID))
           stm == StoredMeta(db, paddedID)
           r == FinishRunLoop(stm, intID)
       IN IF ~r.found
          THEN /\ lastOp' = StoreCall("FinishRun", taskID, runID, 0,
                                      ErrRunNotFound, FALSE, db)
               /\ UNCHANGED db
          ELSE /\ db' = [db EXCEPT !.taskMeta = Put(@, paddedID,
                            [stm EXCEPT !.CurrentlyRunning = SubSeq(r.arr, 1, r.len),
                                        !.LastCompletedTimestampUnix = r.last])]
               /\ lastOp' = StoreCall("FinishRun", taskID, runID, 0, NoErr, FALSE, db)
    /\ listed' = NoListing
    /\ UNCHANGED <<engineVars, csvVars>>

\* lines 193-310: ListTasks without org or user filter.  The first view
\* collects the keys, the second one looks each of them up; the ids come
\* back unpadded.
ListTasks(after, pageSize) ==
    /\ LET taskIDs == ListedKeys(db.tasks, after, PageLimit(pageSize))
       IN  listed' = Listing(after, pageSize,
                             [i \in DOMAIN taskIDs |-> unpadID(taskIDs[i])])
    /\ lastOp' = StoreCall("ListTasks", after, <<>>, 0, NoErr, FALSE, db)
    /\ UNCHANGED db
    /\ UNCHANGED <<engineVars, csvVars>>

NextStore ==
    \/ CreateTask
    \/ \E id \in TaskIDInputs : DeleteTask(id)
    \/ \E id \in TaskIDInputs, now \in Nows : CreateRun(id, now)
    \/ \E id \in TaskIDInputs, runID \in RunIDInputs : FinishRun(id, runID)
    \/ \E after \in TaskIDInputs, pageSize \in PageSizes : ListTasks(after, pageSize)

SpecStore == Init /\ [][NextStore]_vars

\* ------------------------------------------------------ CSVSource.Run
\* lines 87-101: createFromCSVSource, the decoded result is the source's data
createFromCSVSource ==
    /\ runPc = "none"
    /\ \E blocks \in BlockLists : csvData' = blocks
    /\ runPc' = "created"
    /\ UNCHANGED <<csvTs, runBlock, runT, runErr, runMax, tLog>>
    /\ UNCHANGED <<engineVars, storeVars>>

\* lines 109-111: AddTransformation
AddTransformation ==
    /\ runPc = "created"
    /\ csvTs < MaxTransformations
    /\ csvTs' = csvTs + 1
    /\ UNCHANGED <<csvData, runPc, runBlock, runT, runErr, runMax, tLog>>
    /\ UNCHANGED <<engineVars, storeVars>>

\* lines 113-116: Run is called and enters Blocks().Do
RunCall ==
    /\ runPc = "created"
    /\ runPc' = "do"
    /\ runBlock' = 1 /\ runT' = 1
    /\ runErr' = NoErr /\ runMax' = 0
    /\ UNCHANGED <<csvData, csvTs, tLog>>
    /\ UNCHANGED <<engineVars, storeVars>>

\* lines 117-126: t.Process(c.id, b) succeeds, max follows the block's stop
RunProcessOK ==
    /\ runPc = "do"
    /\ runBlock <= Len(csvData)
    /\ runT <= csvTs
    /\ tLog' = Append(tLog, ProcessCall(runT, runBlock, NoErr))
    /\ runMax' = StopMax(runMax, csvData[runBlock])
    /\ runT' = runT + 1
    /\ UNCHANGED <<csvData, csvTs, runPc, runBlock, runErr>>
    /\ UNCHANGED <<engineVars, storeVars>>

\* lines 118-121, 130-132: t.Process fails; the callback returns the error,
\* Do returns it and Run jumps to FINISH
RunProcessFails ==
    /\ runPc = "do"
    /\ runBlock <= Len(csvData)
    /\ runT <= csvTs
    /\ tLog' = Append(tLog, ProcessCall(runT, runBlock, ErrProcess))
    /\ runErr' = ErrProcess
    /\ runPc' = "finish"
    /\ runT' = 1
    /\ UNCHANGED <<csvData, csvTs, runBlock, runMax>>
    /\ UNCHANGED <<engineVars, storeVars>>

\* lines 127-128: the callback returns nil, Do goes on to the next block
RunNextBlock ==
    /\ runPc = "do"
    /\ runBlock <= Len(csvData)
    /\ runT > csvTs
    /\ runBlock' = runBlock + 1
    /\ runT' = 1
    /\ UNCHANGED <<csvData, csvTs, runPc, runErr, runMax, tLog>>
    /\ UNCHANGED <<engineVars, storeVars>>

\* lines 116, 130-132: Do itself returns an error, between two blocks or
\* after the last one, without a failing callback
RunDoFails ==
    /\ runPc = "do"
    /\ runT = 1
    /\ runErr' = ErrDecode
    /\ runPc' = "finish"
    /\ UNCHANGED <<csvData, csvTs, runBlock, runT, runMax, tLog>>
    /\ UNCHANGED <<engineVars, storeVars>>

\* lines 116, 130: Do returns nil after the last block
RunDoReturns ==
    /\ runPc = "do"
    /\ runBlock > Len(csvData)
    /\ runPc' = "watermark"
    /\ runT' = 1
    /\ UNCHANGED <<csvData, csvTs, runBlock, runErr, runMax, tLog>>
    /\ UNCHANGED <<engineVars, storeVars>>

\* lines 134-136: t.UpdateWatermark(c.id, max)
RunUpdateWatermark ==
    /\ runPc = "watermark"
    /\ runT <= csvTs
    /\ tLog' = Append(tLog, UpdateWatermarkCall(runT, runMax))
    /\ runT' = runT + 1
    /\ UNCHANGED <<csvData, csvTs, runPc, runBlock, runErr, runMax>>
    /\ UNCHANGED <<engineVars, storeVars>>

\* lines 134-138: the watermark loop ends, Run reaches FINISH
RunReachFinish ==
    /\ runPc = "watermark"
    /\ runT > csvTs
    /\ runPc' = "finish"
    /\ runT' = 1
    /\ UNCHANGED <<csvData, csvTs, runBlock, runErr, runMax, tLog>>
    /\ UNCHANGED <<engineVars, storeVars>>

\* lines 139-141: t.Finish(c.id, err)
RunFinish ==
    /\ runPc = "finish"
    /\ runT <= csvTs
    /\ tLog' = Append(tLog, FinishCall(runT, runErr))
    /\ runT' = runT + 1
    /\ UNCHANGED <<csvData, csvTs, runPc, runBlock, runErr, runMax>>
    /\ UNCHANGED <<engineVars, storeVars>>

\* line 142: Run returns
RunReturn ==
    /\ runPc = "finish"
    /\ runT > csvTs
    /\ runPc' = "done"
    /\ UNCHANGED <<csvData, csvTs, runBlock, runT, runErr, runMax, tLog>>
    /\ UNCHANGED <<engineVars, storeVars>>

NextCSV ==
    \/ createFromCSVSource
    \/ AddTransformation
    \/ RunCall
    \/ RunProcessOK
    \/ RunProcessFails
    \/ RunNextBlock
    \/ RunDoFails
    \/ RunDoReturns
    \/ RunUpdateWatermark
    \/ RunReachFinish
    \/ RunFinish
    \/ RunReturn

SpecCSV == Init /\ [][NextCSV]_vars

\* ================================================================ claims

\* C1: Job.Execute sends exactly one Row on the output channel and then
\* returns, on every path (success, reducer-initialisation failure, Begin
\* failure, NextInterval failure, raw mode): a job never has two rows sent,
\* a job that has sent its row has nothing left to send, and a job whose
\* Execute has returned has sent exactly one.
C1_ExactlyOneRowPerExecute ==
    \A j \in DOMAIN jobs :
        LET n == Cardinality({p \in DOMAIN sentBy : sentBy[p] = j})
        IN  /\ n <= 1
            /\ (epc = "send" /\ ej = j /\ n = 1) => outbox = <<>>
            /\ (epc # "idle" /\ ej > j) => n = 1

\* two jobs have returned, one after a Begin failure, one after a NextInterval
\* failure
C1_Witness ==
    /\ Len(jobs) = 2 /\ ej > 2
    /\ Len(received) = 2
    /\ received[1].Err = ErrBegin
    /\ received[2].Err = ErrNextInterval

\* C2: the consumer receives the jobs' rows in job-list order, the k-th row
\* from the k-th job; the channel is closed at most once, only after the last
\* job has emitted, and no row arrives after the close: once the channel is
\* closed exactly len(jobs) rows have been received.
C2_RowsInJobOrderThenClose ==
    /\ Len(received) = Len(sentBy)
    /\ Len(received) <= Len(jobs)
    /\ \A k \in DOMAIN sentBy :
           /\ sentBy[k] = k
           /\ received[k].Err \in {NoErr, ErrBegin, ErrNextInterval}
                  => received[k].Tags = jobs[k].TagSet.Tags
    /\ chanCloses <= 1
    /\ (out = "closed") = (chanCloses = 1)
    /\ out = "closed" => Len(received) = Len(jobs)
    /\ epc = "done" => out = "closed"

\* the consumer has seen the close after two rows
C2_Witness ==
    /\ sawClose
    /\ Len(jobs) = 2
    /\ Len(received) = 2
    /\ received[1].Err = NoErr

\* C3 as stated: from the moment the consumer observes the channel closed,
\* every mapper of every job has received exactly one Close().
C3_ClosedWhenChannelCloses ==
    sawClose => \A j \in DOMAIN mappers : \A i \in DOMAIN mappers[j] :
                    mappers[j][i].closes = 1

\* C3 amended: close(out) precedes the deferred e.close(), so when the close
\* is observable a mapper has received at most one Close(), and once the
\* emission goroutine has finished every mapper of every job has received
\* exactly one, whether or not a job emitted an error row.
C3_ClosedWhenEmissionDone ==
    /\ out = "closed" => \A j \in DOMAIN mappers : \A i \in DOMAIN mappers[j] :
                             mappers[j][i].closes <= 1
    /\ epc = "done" => \A j \in DOMAIN mappers : \A i \in DOMAIN mappers[j] :
                           mappers[j][i].closes = 1

\* the emission goroutine has finished two jobs, one of which emitted an
\* error row
C3_Witness ==
    /\ epc = "done"
    /\ Len(jobs) = 2
    /\ jobs[1].Mappers = 2
    /\ \E k \in DOMAIN received : received[k].Err # NoErr
    /\ \E k \in DOMAIN received : received[k].Err = NoErr

\* C4: an error row does not stop the Executor: when the execute loop is
\* over, every job after one that emitted an error row has emitted its own
\* row, and the channel is then closed normally (once, with all rows
\* delivered).
C4_ErrorRowDoesNotStopLaterJobs ==
    \A k \in DOMAIN received :
        received[k].Err # NoErr =>
            /\ epc \in {"closeChan", "deferClose", "done"} =>
                   \A j \in (k + 1)..Len(jobs) :
                       \E p \in DOMAIN sentBy : p > k /\ sentBy[p] = j
            /\ epc \in {"deferClose", "done"} =>
                   out = "closed" /\ chanCloses = 1

\* the first job emitted a NextInterval error row, the second a successful
\* row, and the consumer has seen the close
C4_Witness ==
    /\ sawClose
    /\ Len(received) = 2
    /\ received[1].Err = ErrNextInterval
    /\ received[2].Err = NoErr
    /\ Len(received[2].Values) > 0

\* C5: when a mapper's Open fails during Executor.Execute(), no channel is
\* made, the emission goroutine is never started (no Begin, no NextInterval,
\* no row), no mapper after the failing one is opened, and when Execute()
\* has returned it returned the Open error and every job opened before the
\* failing one has been closed.
C5_OpenFailure ==
    cpc \in {"jobClose", "execClose", "returnedErr"} =>
        /\ retErr = ErrOpen
        /\ out = "nil" /\ chanCloses = 0
        /\ epc = "idle" /\ calls = <<>> /\ sentBy = <<>> /\ received = <<>>
        /\ \A j \in DOMAIN mappers : \A i \in DOMAIN mappers[j] :
               (j > oj \/ (j = oj /\ i > om)) => mappers[j][i].opens = 0
        /\ cpc = "returnedErr" =>
               \A j \in 1..(oj - 1) : \A i \in DOMAIN mappers[j] :
                   mappers[j][i].opens = 1 /\ mappers[j][i].closes = 1

\* Execute() has returned the error of the second job's first mapper, the
\* first job had been opened
C5_Witness ==
    /\ cpc = "returnedErr"
    /\ oj = 2 /\ om = 1
    /\ jobs[2].Mappers = 2
    /\ mappers[1][1].opens = 1

\* C6 as stated: the rows received are in ascending lexicographic order of
\* their jobs' TagSet.Key, whatever order Tx.CreateMapReduceJobs returned.
C6_RowsInKeyOrder ==
    \A p, q \in DOMAIN sentBy :
        p < q => BytesLess(jobs[sentBy[p]].TagSet.Key, jobs[sentBy[q]].TagSet.Key)

\* C6 amended: Plan does not sort, so the rows are received in the order in
\* which Tx.CreateMapReduceJobs returned the jobs (the k-th row belongs to the
\* k-th returned tag set); they are in ascending key order when the
\* transaction returned the jobs in ascending key order.
C6_RowsInTxOrder ==
    /\ \A k \in DOMAIN sentBy :
           /\ jobs[sentBy[k]].TagSet.Key = txJobs[k].TagSet.Key
           /\ received[k].Err \in {NoErr, ErrBegin, ErrNextInterval}
                  => received[k].Tags = txJobs[k].TagSet.Tags
    /\ (\A p, q \in DOMAIN txJobs :
            p < q => BytesLess(txJobs[p].TagSet.Key, txJobs[q].TagSet.Key))
           => \A p, q \in DOMAIN sentBy :
                  p < q => BytesLess(jobs[sentBy[p]].TagSet.Key,
                                     jobs[sentBy[q]].TagSet.Key)

\* the transaction returned key <<2>> before key <<1>> and the rows arrived
\* in that order
C6_Witness ==
    /\ Len(txJobs) = 2
    /\ txJobs[1].TagSet.Key = <<2>> /\ txJobs[2].TagSet.Key = <<1>>
    /\ Len(received) = 2
    /\ received[1].Tags = TagsOf(<<2>>) /\ received[2].Tags = TagsOf(<<1>>)

\* C7: a successful non-raw row of a job with group-by interval I > 0 and
\* TMin > 0 has exactly ((TMax/I)*I + I - TMin)/I value rows; TMin=10,
\* TMax=19, I=10 gives 1 and TMin=10, TMax=29, I=10 gives 2.
C7_BucketCount ==
    \A k \in DOMAIN received :
        LET job == jobs[sentBy[k]]
            r == received[k]
            I == execInterval
        IN  (r.Err = NoErr /\ ~IsRaw(stmt) /\ I > 0 /\ job.TMin > 0) =>
                /\ Len(r.Values) = ((job.TMax \div I) * I + I - job.TMin) \div I
                /\ (job.TMin = 10 /\ job.TMax = 19 /\ I = 10) => Len(r.Values) = 1
                /\ (job.TMin = 10 /\ job.TMax = 29 /\ I = 10) => Len(r.Values) = 2

\* a successful row for TMin=10, TMax=29, I=10 with its two value rows
C7_Witness ==
    \E k \in DOMAIN received :
        /\ received[k].Err = NoErr /\ ~IsRaw(stmt)
        /\ execInterval = 10
        /\ jobs[sentBy[k]].TMin = 10 /\ jobs[sentBy[k]].TMax = 29
        /\ Len(received[k].Values) = 2

\* C8: when TMin = 0, or the group-by interval is 0, or the statement is raw,
\* the running Job.Execute uses one bucket over the whole range: every
\* NextInterval it issues carries TMax - TMin, no mapper gets more than one
\* per aggregate, and when the job has its successful row every mapper got
\* exactly one per aggregate, a non-raw row has exactly one value row and a
\* raw row has as many value rows as the raw result has records (zero when it
\* is empty).
C8_SingleBucket ==
    (/\ epc \in {"begin", "next", "send"}
     /\ (jobs[ej].TMin = 0 \/ execInterval = 0 \/ IsRaw(stmt))) =>
        LET job == jobs[ej]
            nexts(c, i) == {p \in DOMAIN calls : /\ calls[p].op = "NextInterval"
                                                 /\ calls[p].call = c
                                                 /\ calls[p].mapper = i}
            row == IF outbox # <<>> THEN Head(outbox) ELSE received[Len(received)]
        IN  /\ \A p \in DOMAIN calls :
                   calls[p].op = "NextInterval" => calls[p].arg = job.TMax - job.TMin
            /\ \A c \in Range(JobAggregates(stmt)) : \A i \in 1..job.Mappers :
                   Cardinality(nexts(c, i)) <= 1
            /\ (epc = "send" /\ row.Err = NoErr) =>
                   /\ \A c \in Range(JobAggregates(stmt)) : \A i \in 1..job.Mappers :
                          Cardinality(nexts(c, i)) = 1
                   /\ ~IsRaw(stmt) => Len(row.Values) = 1
                   /\ IsRaw(stmt) =>
                          /\ Len(row.Values) = Len(resultValues[1][2].raw)
                          /\ resultValues[1][2].raw = <<>> => Len(row.Values) = 0

\* a job with TMin = 0 and group-by interval 10 has its successful row of two
\* aggregates over two mappers
C8_Witness ==
    /\ epc = "send" /\ outbox # <<>>
    /\ Head(outbox).Err = NoErr
    /\ jobs[ej].TMin = 0 /\ jobs[ej].TMax = 25 /\ execInterval = 10
    /\ jobs[ej].Mappers = 2
    /\ Len(AggregateCalls(stmt)) = 2
    /\ Len(calls) = 8
    /\ Len(Head(outbox).Values) = 1

\* C9: in every successful non-raw row, the first entry of value row i is the
\* UTC time of TMin + i*I (i from 0), I being the bucket width the job used
\* (the group-by interval, or TMax - TMin in the single-bucket case), and
\* these times are strictly ascending in i.
C9_BucketTimes ==
    \A k \in DOMAIN received :
        LET job == jobs[sentBy[k]]
            r == received[k]
            I == IF job.TMin = 0 \/ execInterval = 0
                 THEN job.TMax - job.TMin ELSE execInterval
        IN  (r.Err = NoErr /\ ~IsRaw(stmt)) =>
                /\ \A i \in DOMAIN r.Values :
                       LET t == r.Values[i][1]
                       IN  /\ t.nsec >= 0 /\ t.nsec < NanosPerSecond
                           /\ t.sec * NanosPerSecond + t.nsec
                                  = job.TMin + (i - 1) * I
                /\ \A i, i2 \in DOMAIN r.Values :
                       i < i2 => TimeBefore(r.Values[i][1], r.Values[i2][1])

\* a successful row whose two buckets lie in different seconds
C9_Witness ==
    \E k \in DOMAIN received :
        /\ received[k].Err = NoErr /\ ~IsRaw(stmt)
        /\ Len(received[k].Values) = 2
        /\ received[k].Values[1][1] = [sec |-> 0, nsec |-> 999999995]
        /\ received[k].Values[2][1] = [sec |-> 1, nsec |-> 5]

\* C10: in every successful non-raw row, Columns is "time" followed by the
\* aggregate names in statement order, every value row has len(Columns)
\* entries, and entry k+1 of value row b is the k-th aggregate's reducer
\* result for bucket b (here: the sum of the mappers' partials for it).
C10_ColumnsAndValues ==
    \A k \in DOMAIN received :
        LET job == jobs[sentBy[k]]
            r == received[k]
            aggs == AggregateCalls(stmt)
            total(c, b) ==
                LET RECURSIVE Sum(_)
                    Sum(i) == IF i = 0 THEN 0
                              ELSE AggData(c, i, b - 1).num + Sum(i - 1)
                IN  Sum(job.Mappers)
        IN  (r.Err = NoErr /\ ~IsRaw(stmt)) =>
                /\ Len(r.Columns) = 1 + Len(aggs)
                /\ r.Columns[1] = "time"
                /\ \A a \in DOMAIN aggs : r.Columns[a + 1] = aggs[a]
                /\ \A b \in DOMAIN r.Values :
                       /\ Len(r.Values[b]) = Len(r.Columns)
                       /\ \A a \in DOMAIN aggs :
                              r.Values[b][a + 1] = Num(total(aggs[a], b))

\* a successful row of two aggregates, two buckets and two mappers
C10_Witness ==
    \E k \in DOMAIN received :
        /\ received[k].Err = NoErr
        /\ received[k].Columns = <<"time", "count", "sum">>
        /\ Len(received[k].Values) = 2
        /\ jobs[sentBy[k]].Mappers = 2
        /\ received[k].Values[2][3] = Num(186)

\* C11: running Execute on the same job twice, with mappers that replay
\* identical outputs from each Begin, yields identical rows, for every
\* combination of TMin, TMax and group-by interval.
C11_ReplayYieldsIdenticalRows ==
    Len(received) = 2 => received[1] = received[2]

\* C12: when a mapper's Begin or NextInterval returns an error the job
\* aborts at once: the failing call is the last one the job issues (while the
\* job is at its send no call is added), no later aggregate has been started,
\* and the row carries that error, Name = MeasurementName, Tags =
\* TagSet.Tags and no Columns or Values.
C12_MapperErrorAbortsJob ==
    /\ [](LET row == IF outbox # <<>> THEN Head(outbox)
                     ELSE received[Len(received)]
              job == jobs[ej]
              last == calls[Len(calls)]
              current == {p \in DOMAIN calls : calls[p].call = aggregates[ea]}
          IN  (epc = "send" /\ row.Err \in {ErrBegin, ErrNextInterval}) =>
                  /\ row = [Name |-> job.MeasurementName, Tags |-> job.TagSet.Tags,
                            Columns |-> <<>>, Values |-> <<>>, Err |-> row.Err]
                  /\ calls # <<>>
                  /\ last.op = (IF row.Err = ErrBegin THEN "Begin" ELSE "NextInterval")
                  /\ last.call = aggregates[ea] /\ last.mapper = em
                  /\ \A p \in DOMAIN calls :
                         \E q \in 1..ea : calls[p].call = aggregates[q]
                  /\ Cardinality(current) =
                         (IF row.Err = ErrBegin THEN em
                          ELSE job.Mappers + (eb - 1) * job.Mappers + em))
    /\ [][epc = "send" => calls' = calls]_vars

\* the first mapper's NextInterval failed in the first bucket of the first of
\* two aggregates, with a second mapper and a second bucket still to come
C12_Witness ==
    /\ epc = "send" /\ outbox # <<>>
    /\ Head(outbox).Err = ErrNextInterval
    /\ Len(aggregates) = 2 /\ ea = 1
    /\ jobs[ej].Mappers = 2 /\ em = 1
    /\ Len(resultValues) = 2 /\ eb = 1

\* C13: when initialising a reducer fails, the job's row carries Name =
\* MeasurementName, Tags = TagSet.Tags and the initialisation error, and no
\* Begin or NextInterval has been called.
C13_InitErrorRowNamesJob ==
    /\ \A k \in DOMAIN received :
           received[k].Err = ErrUnknownFunc =>
               /\ received[k].Name = jobs[sentBy[k]].MeasurementName
               /\ received[k].Tags = jobs[sentBy[k]].TagSet.Tags
    /\ (epc = "send" /\ FirstInitErr(jobs[ej].stmt) # NoErr) => calls = <<>>

\* C14: when Plan fails after DB.Begin succeeded, no Executor is produced and
\* the transaction has been closed; when DB.Begin itself fails,
\* CreateMapReduceJobs is not called.
C14_FailedPlanReleasesTx ==
    cpc = "planFailed" =>
        /\ jobs = <<>> /\ out = "nil" /\ retErr # NoErr
        /\ retErr = ErrDBBegin => (tx = "none" /\ ~createCalled)
        /\ retErr \in {ErrNormalize, ErrCreateJobs} => tx = "closed"

\* C15 as stated: a statement that names an unknown aggregate is rejected by
\* Plan, so no Executor and no channel ever exist for it.
C15_UnknownAggregateRejectedByPlan ==
    (\E p \in DOMAIN AggregateCalls(stmt) : AggregateCalls(stmt)[p] \notin KnownFuncs)
        => (cpc \in {"plan", "planFailed"} /\ out = "nil")

\* C15 amended: Plan does not look at the aggregates; an unknown aggregate is
\* reported at job time: no job of the statement issues a Begin or
\* NextInterval, and every row received carries the reducer-initialisation
\* error and no values.
C15_UnknownAggregateReportedAtJobTime ==
    (\E p \in DOMAIN AggregateCalls(stmt) : AggregateCalls(stmt)[p] \notin KnownFuncs)
        => /\ epc \notin {"begin", "next"}
           /\ calls = <<>>
           /\ \A k \in DOMAIN received :
                  /\ received[k].Err = ErrUnknownFunc
                  /\ received[k].Columns = <<>>
                  /\ received[k].Values = <<>>

\* Plan succeeded for a statement with an unknown aggregate and the consumer
\* got one error row per job before the close
C15_Witness ==
    /\ Contains(AggregateCalls(stmt), "bogus")
    /\ sawClose
    /\ Len(jobs) = 2
    /\ Len(received) = 2
    /\ received[1].Err = ErrUnknownFunc /\ received[2].Err = ErrUnknownFunc

\* C16: after a successful Plan the Executor holds exactly the jobs the
\* transaction returned, in the same order, each with the normalised interval
\* and the planned statement, and with MeasurementName, TagSet, Mappers, TMin
\* and TMax as the transaction set them.
C16_PlanImprintsJobs ==
    cpc \notin {"plan", "planFailed"} =>
        /\ Len(jobs) = Len(txJobs)
        /\ execInterval \in Intervals
        /\ \A p \in DOMAIN jobs :
               /\ jobs[p].stmt = stmt
               /\ cpc = "planned" => jobs[p].interval = execInterval
               /\ jobs[p].MeasurementName = txJobs[p].MeasurementName
               /\ jobs[p].TagSet = txJobs[p].TagSet
               /\ jobs[p].Mappers = txJobs[p].Mappers
               /\ jobs[p].TMin = txJobs[p].TMin
               /\ jobs[p].TMax = txJobs[p].TMax

\* Plan has returned an Executor with two jobs, in the transaction's
\* (descending) order, for a group-by interval of 10
C16_Witness ==
    /\ cpc = "planned"
    /\ Len(jobs) = 2
    /\ execInterval = 10
    /\ txJobs[1].TagSet.Key = <<2>> /\ jobs[1].TagSet.Key = <<2>>
    /\ jobs[2].interval = 10 /\ jobs[2].stmt # NoStmt

\* C17: the row of a raw job that did not fail has as Columns the names in
\* the select list, with "time" prepended if and only if it is not among
\* them, one value row per record of the raw reducer's output, in the order
\* of that output (value row k holds the time of record k), and every value
\* row has len(Columns) entries.
C17_RawRowShape ==
    LET row == IF outbox # <<>> THEN Head(outbox) ELSE received[Len(received)]
        names == NamesInSelect(stmt)
        recs == resultValues[1][2].raw
    IN  (epc = "send" /\ IsRaw(stmt) /\ row.Err = NoErr) =>
            /\ ("time" \in Range(names)) => row.Columns = names
            /\ ("time" \notin Range(names)) => row.Columns = <<"time">> \o names
            /\ Len(row.Values) = Len(recs)
            /\ \A k \in DOMAIN row.Values :
                   /\ Len(row.Values[k]) = Len(row.Columns)
                   /\ \E p \in DOMAIN row.Values[k] :
                          row.Values[k][p] = utc(recs[k].timestamp)

\* a raw row of three records merged from two mappers, for SELECT v
C17_Witness ==
    /\ epc = "send" /\ outbox # <<>>
    /\ NamesInSelect(stmt) = <<"v">>
    /\ Head(outbox).Err = NoErr
    /\ Head(outbox).Columns = <<"time", "v">>
    /\ Len(Head(outbox).Values) = 3
    /\ Head(outbox).Values[2][1] = [sec |-> 0, nsec |-> 12]

\* C18: in a raw row, record k (timestampNs, payload) becomes value row k:
\* with exactly two columns the value row is [utc(timestampNs), payload];
\* otherwise the entry at a "time" column is utc(timestampNs) and the entry at
\* any other column is payload[column], null when the payload lacks it.
C18_RawRowValues ==
    LET row == IF outbox # <<>> THEN Head(outbox) ELSE received[Len(received)]
        recs == resultValues[1][2].raw
    IN  (epc = "send" /\ IsRaw(stmt) /\ row.Err = NoErr) =>
            \A k \in DOMAIN row.Values :
                LET rec == recs[k]
                    v == row.Values[k]
                    t == [sec |-> rec.timestamp \div NanosPerSecond,
                          nsec |-> rec.timestamp % NanosPerSecond]
                IN  IF Len(row.Columns) = 2
                    THEN v = <<t, rec.values>>
                    ELSE \A p \in DOMAIN row.Columns :
                             IF row.Columns[p] = "time" THEN v[p] = t
                             ELSE IF row.Columns[p] \in DOMAIN rec.values
                                  THEN v[p] = rec.values[row.Columns[p]]
                                  ELSE v[p] = Null

\* a raw row for SELECT time, x, y whose third record lacks field y
C18_Witness ==
    /\ epc = "send" /\ outbox # <<>>
    /\ Head(outbox).Err = NoErr
    /\ Head(outbox).Columns = <<"time", "x", "y">>
    /\ Len(Head(outbox).Values) = 3
    /\ Head(outbox).Values[3] = <<[sec |-> 0, nsec |-> 17], Num(27), Null>>


\* C19: on the bolt task store, whatever CreateTask, CreateRun, FinishRun and
\* DeleteTask calls have been made, no task's metadata records more running
\* runs than its MaxConcurrency, which is 1 for every created task; and a
\* CreateRun issued when the task's running list had reached the limit
\* returned ErrMaxConcurrency, added no run and left the stored metadata (and
\* the rest of the database) as it was.
C19_RunningNeverExceedsMaxConcurrency ==
    /\ \A id \in DOMAIN db.taskMeta :
          /\ db.taskMeta[id].MaxConcurrency = 1
          /\ Len(db.taskMeta[id].CurrentlyRunning) <= db.taskMeta[id].MaxConcurrency
    /\ lastOp.op = "CreateRun" =>
          LET paddedID == padID(lastOp.taskID)
              old == StoredMeta(lastOp.before, paddedID)
              new == StoredMeta(db, paddedID)
          IN /\ Len(old.CurrentlyRunning) >= old.MaxConcurrency
                   => /\ lastOp.err = ErrMaxConcurrency
                      /\ new.CurrentlyRunning = old.CurrentlyRunning
                      /\ db = lastOp.before
             /\ lastOp.err = ErrMaxConcurrency
                   => db.taskMeta = lastOp.before.taskMeta
             /\ lastOp.err = NoErr
                   => Len(new.CurrentlyRunning) = Len(old.CurrentlyRunning) + 1

\* the second task has a run, and a CreateRun on it has just been refused
C19_Witness ==
    /\ lastOp.op = "CreateRun"
    /\ lastOp.taskID = <<2>>
    /\ lastOp.err = ErrMaxConcurrency
    /\ PutUint64(2) \in db.tasks
    /\ Len(db.taskMeta[PutUint64(2)].CurrentlyRunning) = 1
    /\ Len(lastOp.before.taskMeta[PutUint64(2)].CurrentlyRunning) = 1

\* C20: FinishRun(taskID, runID) on a run that was in the task's running
\* list removed exactly that run (the others kept, in order), set the
\* last-completed timestamp to the larger of its old value and the run's
\* now, and changed nothing else, so that finishing the same run again would
\* not find it; on a run id that was not running it returned ErrRunNotFound
\* and left the database as it was.  A run is named by the id CreateRun
\* returned for it, padded or not.
C20_FinishRunRemovesTheRun ==
    lastOp.op = "FinishRun" =>
        LET paddedID == padID(lastOp.taskID)
            old == StoredMeta(lastOp.before, paddedID)
            new == StoredMeta(db, paddedID)
            Names(r) == unpadID(PutUint64(r.RunID)) = unpadID(lastOp.runID)
            running == {p \in DOMAIN old.CurrentlyRunning : Names(old.CurrentlyRunning[p])}
        IN IF running # {}
           THEN /\ lastOp.err = NoErr
                /\ new.CurrentlyRunning =
                       SelectSeq(old.CurrentlyRunning, LAMBDA r : ~Names(r))
                /\ Len(new.CurrentlyRunning) = Len(old.CurrentlyRunning) - 1
                /\ \A p \in running :
                      LET now == old.CurrentlyRunning[p].NowTimestampUnix
                          last == old.LastCompletedTimestampUnix
                      IN new.LastCompletedTimestampUnix = IF now > last THEN now ELSE last
                /\ new.MaxConcurrency = old.MaxConcurrency
                /\ db = [lastOp.before EXCEPT !.taskMeta = Put(@, paddedID, new)]
                /\ ~FinishRunLoop(new, Uint64(padID(lastOp.runID))).found
           ELSE /\ lastOp.err = ErrRunNotFound
                /\ db = lastOp.before

\* a run with now = 3 has just been finished on a task whose last completed
\* run had now = 5: the last-completed time stays 5
C20_Witness ==
    /\ lastOp.op = "FinishRun"
    /\ lastOp.err = NoErr
    /\ LET paddedID == padID(lastOp.taskID)
           old == StoredMeta(lastOp.before, paddedID)
       IN /\ Len(old.CurrentlyRunning) = 1
          /\ old.CurrentlyRunning[1].NowTimestampUnix = 3
          /\ old.LastCompletedTimestampUnix = 5
          /\ StoredMeta(db, paddedID).CurrentlyRunning = <<>>
          /\ StoredMeta(db, paddedID).LastCompletedTimestampUnix = 5

\* C21: within one Job.Execute the mapper calls follow one fixed order:
\* aggregate after aggregate in statement order, and for each aggregate
\* Begin(call, TMin) on every mapper in mapper order, then for each bucket in
\* ascending order one NextInterval(I) on every mapper in mapper order.  The
\* calls issued so far are always a prefix of that sequence, and a job that
\* ends without an error has issued all of it: every mapper got exactly
\* pointCount NextInterval calls per aggregate.
C21_MapperCallOrder ==
    epc \in {"begin", "next", "send"} =>
        LET job == PlanJobs(txJobs, execInterval, stmt)[ej]
            aggs == IF stmt.aggregates = <<>> THEN <<NilCall>> ELSE stmt.aggregates
            single == job.TMin = 0 \/ job.interval = 0 \/ stmt.aggregates = <<>>
            I == IF single THEN job.TMax - job.TMin ELSE job.interval
            pointCount ==
                IF single THEN 1
                ELSE (((job.TMax \div I) * I + I) - job.TMin) \div I
            n == job.Mappers
            perAggregate == n + pointCount * n
            expected ==
                [p \in 1..(Len(aggs) * perAggregate) |->
                    LET a == ((p - 1) \div perAggregate) + 1
                        r == (p - 1) % perAggregate
                    IN  IF r < n
                        THEN [op |-> "Begin", mapper |-> r + 1, call |-> aggs[a],
                              arg |-> job.TMin]
                        ELSE [op |-> "NextInterval", mapper |-> ((r - n) % n) + 1,
                              call |-> aggs[a], arg |-> I]]
            row == IF outbox # <<>> THEN Head(outbox) ELSE received[Len(received)]
        IN  /\ Len(calls) <= Len(expected)
            /\ calls = SubSeq(expected, 1, Len(calls))
            /\ (epc = "send" /\ row.Err = NoErr) =>
                   /\ calls = expected
                   /\ \A i \in 1..n, a \in DOMAIN aggs :
                         Cardinality({p \in DOMAIN calls :
                                         /\ calls[p].op = "NextInterval"
                                         /\ calls[p].mapper = i
                                         /\ calls[p].call = aggs[a]}) = pointCount

\* TMin = 10, TMax = 19, I = 10, two aggregates over two mappers: the job has
\* ended with its row after one NextInterval per mapper and aggregate
C21_Witness ==
    /\ epc = "send" /\ outbox # <<>> /\ Head(outbox).Err = NoErr
    /\ stmt.aggregates = <<"count", "sum">>
    /\ jobs[ej].TMin = 10 /\ jobs[ej].TMax = 19 /\ execInterval = 10
    /\ jobs[ej].Mappers = 2
    /\ Len(calls) = 8
    /\ Cardinality({p \in DOMAIN calls : calls[p].op = "NextInterval"}) = 4

\* C22: mapper operations never overlap and jobs never run side by side.
\* While the caller is opening (or, after a failed Open, closing) mappers the
\* emission goroutine has not been started; once it has been started the
\* caller issues no mapper operation any more and every mapper of every job
\* has been opened; and the goroutine runs job ej only after each of the
\* jobs before it has sent its one row, however slowly the consumer receives.
C22_MapperOperationsNeverOverlap ==
    /\ cpc \in {"open", "jobClose", "execClose"} => epc = "idle"
    /\ epc # "idle" =>
          /\ cpc = "consume"
          /\ \A j \in DOMAIN mappers : \A i \in DOMAIN mappers[j] :
                mappers[j][i].opens = 1
    /\ epc \in {"jobStart", "begin", "next"} =>
          /\ ej \in DOMAIN jobs
          /\ outbox = <<>>
          /\ sentBy = [p \in 1..(ej - 1) |-> p]
          /\ received # <<>> => sentBy[Len(sentBy)] = ej - 1
    /\ epc = "send" =>
          /\ ej \in DOMAIN jobs
          /\ sentBy = [p \in 1..(IF outbox = <<>> THEN ej ELSE ej - 1) |-> p]
    /\ epc \in {"closeChan", "deferClose", "done"} =>
          sentBy = [p \in 1..Len(jobs) |-> p]

\* the second of two jobs, each over two mappers, is in its NextInterval
\* calls: the first job has sent its row and the caller is the consumer
C22_Witness ==
    /\ epc = "next" /\ ej = 2 /\ Len(jobs) = 2
    /\ cpc = "consume"
    /\ jobs[1].Mappers = 2
    /\ sentBy = <<1>>
    /\ calls # <<>> /\ calls[Len(calls)].op = "NextInterval"

\* C23: while a job's row is at the send and the consumer has not received
\* it, the emission goroutine does nothing: the channel is open and no mapper
\* has been closed, and the only step that changes anything of the goroutine
\* is the consumer's receive of that very row; until then no Begin or
\* NextInterval is issued, no mapper is closed, the next job does not start
\* and the channel is not closed.
C23_BlockedAtSendUntilReceived ==
    /\ []((epc = "send" /\ outbox # <<>>) =>
             /\ out = "open" /\ chanCloses = 0
             /\ \A j \in DOMAIN mappers : \A i \in DOMAIN mappers[j] :
                   mappers[j][i].closes = 0)
    /\ [][(epc = "send" /\ outbox # <<>>) =>
             \/ /\ received' = Append(received, Head(outbox))
                /\ outbox' = Tail(outbox)
                /\ UNCHANGED <<calls, mappers, ej, epc, out, chanCloses, jobs>>
             \/ UNCHANGED <<calls, mappers, ej, epc, out, chanCloses, jobs,
                            outbox, received>>]_vars

\* the first of two jobs is at its send and the consumer has received nothing
C23_Witness ==
    /\ epc = "send" /\ outbox # <<>>
    /\ ej = 1 /\ Len(jobs) = 2
    /\ received = <<>>
    /\ calls # <<>>

\* C24: once Execute() has returned a channel, with a consumer that keeps
\* receiving and mapper operations that return, the emission goroutine
\* eventually has closed the channel and every mapper of every job has been
\* closed.
C24_EventuallyClosed ==
    (out = "open") ~>
        (/\ out = "closed"
         /\ \A j \in DOMAIN mappers : \A i \in DOMAIN mappers[j] :
               mappers[j][i].closes >= 1)

\* the emission goroutine has ended after two jobs, one of which sent an
\* error row: the channel is closed and every mapper has been closed
C24_Witness ==
    /\ epc = "done" /\ out = "closed"
    /\ Len(jobs) = 2 /\ Len(received) = 2
    /\ received[1].Err # NoErr
    /\ \A j \in DOMAIN mappers : \A i \in DOMAIN mappers[j] :
          mappers[j][i].closes = 1

\* C25 as stated: when Run has returned, every transformation got exactly one
\* Finish, after all Process and UpdateWatermark calls; if no Process call
\* failed, every transformation got exactly one UpdateWatermark carrying the
\* largest stop time seen, and otherwise none got one; and a failing Process
\* is the last Process call and its error is in every Finish.
C25_WatermarkIffNoProcessFailed ==
    runPc = "done" =>
        LET Ops(o) == {p \in DOMAIN tLog : tLog[p].op = o}
            failed == {p \in Ops("Process") : tLog[p].err # NoErr}
            seen == {csvData[tLog[p].block].stop :
                        p \in {q \in Ops("Process") : csvData[tLog[q].block].hasStop}}
            largest == IF seen = {} THEN 0
                       ELSE CHOOSE m \in seen : \A x \in seen : x <= m
        IN  /\ \A t \in 1..csvTs :
                  Cardinality({p \in Ops("Finish") : tLog[p].t = t}) = 1
            /\ \A p \in Ops("Finish"), q \in Ops("Process") \cup Ops("UpdateWatermark") :
                  q < p
            /\ IF failed = {}
               THEN \A t \in 1..csvTs :
                       /\ Cardinality({p \in Ops("UpdateWatermark") : tLog[p].t = t}) = 1
                       /\ \A p \in Ops("UpdateWatermark") : tLog[p].time = largest
               ELSE Ops("UpdateWatermark") = {}
            /\ \A f \in failed :
                  /\ \A q \in Ops("Process") : q <= f
                  /\ \A p \in Ops("Finish") : tLog[p].err = tLog[f].err

\* C25: when Run has returned, every transformation got exactly one Finish,
\* after all Process and UpdateWatermark calls; if Blocks().Do returned no
\* error (no Process failed and the block iterator did not fail either) every
\* transformation got exactly one UpdateWatermark carrying the largest of 0
\* and the stop times of the processed blocks, and otherwise none got one; a
\* failing Process is the last Process call; and every Finish carries the
\* error Do returned.
C25_WatermarkIffDoSucceeded ==
    runPc = "done" =>
        LET Ops(o) == {p \in DOMAIN tLog : tLog[p].op = o}
            failed == {p \in Ops("Process") : tLog[p].err # NoErr}
            seen == {0} \cup
                    {csvData[tLog[p].block].stop :
                        p \in {q \in Ops("Process") : csvData[tLog[q].block].hasStop}}
            largest == CHOOSE m \in seen : \A x \in seen : x <= m
        IN  /\ \A t \in 1..csvTs :
                  Cardinality({p \in Ops("Finish") : tLog[p].t = t}) = 1
            /\ \A p \in Ops("Finish"), q \in Ops("Process") \cup Ops("UpdateWatermark") :
                  q < p
            /\ IF runErr = NoErr
               THEN /\ failed = {}
                    /\ \A t \in 1..csvTs :
                          Cardinality({p \in Ops("UpdateWatermark") : tLog[p].t = t}) = 1
                    /\ \A p \in Ops("UpdateWatermark") : tLog[p].time = largest
                    /\ Cardinality(Ops("Process")) = csvTs * Len(csvData)
               ELSE Ops("UpdateWatermark") = {}
            /\ \A f \in failed :
                  /\ \A q \in Ops("Process") : q <= f
                  /\ runErr = tLog[f].err
            /\ \A p \in Ops("Finish") : tLog[p].err = runErr

\* Run has returned after the block iterator failed behind the first of two
\* blocks: two transformations processed that block, none got a watermark,
\* both were finished with the iterator's error
C25_Witness ==
    /\ runPc = "done"
    /\ csvTs = 2 /\ Len(csvData) = 2
    /\ runErr = ErrDecode
    /\ [p \in DOMAIN tLog |-> tLog[p].op] = <<"Process", "Process", "Finish", "Finish">>
    /\ tLog[1].err = NoErr /\ tLog[2].err = NoErr
    /\ tLog[4].err = ErrDecode

\* C26: on every path through Execute() and the emission goroutine, a failed
\* Open included, no mapper has received Close more than once and none has
\* received Close without Open having been called on it.
C26_ClosedOnceAndOnlyIfOpened ==
    \A j \in DOMAIN mappers : \A i \in DOMAIN mappers[j] :
        /\ mappers[j][i].closes <= 1
        /\ mappers[j][i].closes >= 1 => mappers[j][i].opens >= 1

\* C27: when Job.Execute has returned, the job has the configuration Plan
\* gave it: interval, TMin, TMax, Mappers and stmt are what they were before
\* the call.
C27_ExecuteLeavesJobUnchanged ==
    (epc = "send" /\ outbox = <<>>) =>
        LET before == PlanJobs(txJobs, execInterval, stmt)[ej]
        IN  /\ jobs[ej].interval = before.interval
            /\ jobs[ej].TMin = before.TMin
            /\ jobs[ej].TMax = before.TMax
            /\ jobs[ej].Mappers = before.Mappers
            /\ jobs[ej].stmt = before.stmt

\* C28: for a non-raw job with interval I > 0 and 0 < TMin <= TMax, the
\* buckets [TMin + i*I, TMin + (i+1)*I) for i in [0, pointCount) cover the
\* query range: every timestamp from TMin to TMax lies in exactly one of them.
C28_BucketsCoverRange ==
    (/\ epc \in {"begin", "next"}
     /\ stmt.aggregates # <<>>
     /\ execInterval > 0
     /\ jobs[ej].TMin > 0) =>
        LET TMin == jobs[ej].TMin
            TMax == jobs[ej].TMax
            I == execInterval
            pointCount == Len(resultValues)
        IN  \A t \in TMin..TMax :
                Cardinality({i \in 0..(pointCount - 1) :
                                TMin + i * I <= t /\ t < TMin + (i + 1) * I}) = 1

\* C29: in every value row of a raw row the entry under the column "time" is
\* the UTC time of a record's timestamp and the entry under every other
\* column is a field value (a value or null), whatever the order of the
\* selected names.
C29_RawEntriesUnderTheirColumns ==
    \A k \in DOMAIN received :
        LET row == received[k]
            stamps == UNION {Range(RawTimestamps(i)) : i \in 1..(MaxMappers + 1)}
        IN  (stmt.aggregates = <<>> /\ row.Err = NoErr) =>
                \A v \in DOMAIN row.Values : \A p \in DOMAIN row.Columns :
                    IF row.Columns[p] = "time"
                    THEN \E ts \in stamps : row.Values[v][p] = utc(ts)
                    ELSE DOMAIN row.Values[v][p] \in {{"num"}, {"null"}}

\* C30: ListTasks with After = x, without org or user filter, returns in
\* ascending id order the first min(limit, n) of the n stored tasks whose id
\* is greater than x, skipping none, whether or not a task with id x is in
\* the store.
C30_ListTasksAfter ==
    (lastOp.op = "ListTasks" /\ Len(listed.After) > 0) =>
        LET x == Uint64(padID(listed.After))
            limit == IF listed.PageSize = 0 THEN defaultPageSize ELSE listed.PageSize
            greater == {Uint64(k) : k \in {t \in db.tasks : Uint64(t) > x}}
            n == Cardinality(greater)
            count == IF limit < n THEN limit ELSE n
            Rank(v) == Cardinality({w \in greater : w <= v})
            expected == [i \in 1..count |->
                            unpadID(PutUint64(CHOOSE v \in greater : Rank(v) = i))]
        IN  listed.IDs = expected

====
